---- MODULE Spec2Model ----
(***************************************************************************)
(* A model of the mini-python interpreter: the indentation-sensitive lexer *)
(* (src/src/lexer.cpp) and the runtime / AST evaluator (runtime.cpp and    *)
(* statement.cpp, kept under src/unnamed/part_000 and part_002).           *)
(***************************************************************************)
EXTENDS Integers, Sequences, FiniteSets, TLC

VARIABLES
    source,      \* the bytes std::cin holds when the Lexer is constructed
    lexer,       \* the Lexer object: input_, token_, indent_, indent_diff_
    tokens,      \* every token handed out so far (constructor, then NextToken)
    source2,     \* a second source, an edit of the first, lexed side by side
    lexer2,      \* the Lexer over source2
    tokens2,     \* the tokens handed out by lexer2
    heap,        \* the runtime objects: constants, classes, class instances
    closure,     \* the top-level scope main passes to the program's Execute
    status,      \* "ok", or how the run of the program ended
    executed,    \* how many top-level statements have been executed
    log,         \* what happened while the last top-level statement ran
    result,      \* what the last top-level statement evaluated to
    output,      \* the characters written to the context's output stream
    lookup       \* a class hierarchy and the last method lookup made in it

lexvars == <<source, lexer, tokens, source2, lexer2, tokens2>>

evalvars == <<heap, closure, status, executed, log, result, output, lookup>>

vars == <<lexvars, evalvars>>

(***************************************************************************)
(* Bounds of the model.                                                    *)
(***************************************************************************)
MaxSrcLen == 7
MaxEofCalls == 2
MaxDigits == 3
MaxStrLen == 4
MaxTwinLen == 5
MaxInsertLen == 2
MaxSteps == 5
MaxDepth == 2
MaxMethods == 2
MaxCompares == 3

(***************************************************************************)
(* Characters.  A character is a one-character string; EOF is the value    *)
(* std::istream::peek / get give on an exhausted stream.                   *)
(***************************************************************************)
EOF == "EOF"

Digits == {"0", "1", "2", "3", "4", "5", "6", "7", "8", "9"}

Letters ==
    {"a", "b", "c", "d", "e", "f", "g", "h", "i", "j", "k", "l", "m",
     "n", "o", "p", "q", "r", "s", "t", "u", "v", "w", "x", "y", "z",
     "A", "B", "C", "D", "E", "F", "G", "H", "I", "J", "K", "L", "M",
     "N", "O", "P", "Q", "R", "S", "T", "U", "V", "W", "X", "Y", "Z"}

comparison_symbols == {"=", "!", "<", ">"}

special_symbols == {".", ",", ":", "+", "-", "*", "/", "(", ")", "=", "<", ">"}

IntMax == 2147483647

(***************************************************************************)
(* Object holders and scopes.  A holder is empty (None), owns its object   *)
(* (it counts in the object's use count) or shares it without owning (the  *)
(* shared_ptr with the do-nothing deleter of ObjectHolder::Share).  ref is *)
(* the object's place in the heap, 0 for the empty holder.  A Closure maps *)
(* names to holders.                                                       *)
(***************************************************************************)
None == [ref |-> 0, own |-> FALSE]

Own(r) == [ref |-> r, own |-> TRUE]

Share(r) == [ref |-> r, own |-> FALSE]

EmptyClosure == [n \in {} |-> None]

\* closure[key] = h, without the release of the holder that was there.
Put(clo, key, h) == [n \in DOMAIN clo \cup {key} |-> IF n = key THEN h ELSE clo[n]]

\* The evaluator before main has built a program: the state of the runs
\* that only lex.
NoResult == [val |-> None, live |-> TRUE, ub |-> FALSE]

\* No method has been looked up.
NoLookup == [asked |-> FALSE]

NoProgram ==
    /\ heap = <<>>
    /\ closure = EmptyClosure
    /\ status = "ok"
    /\ executed = 0
    /\ log = <<>>
    /\ result = NoResult
    /\ output = <<>>
    /\ lookup = NoLookup

(***************************************************************************)
(* Tokens: the variant's alternative, and the payload of the four valued   *)
(* alternatives (str for Id, String and Char; num for Number).             *)
(***************************************************************************)
Tok(t) == [type |-> t, str |-> <<>>, num |-> 0]

TokStr(t, s) == [type |-> t, str |-> s, num |-> 0]

TokNum(n) == [type |-> "Number", str |-> <<>>, num |-> n]

keyword_to_token ==
    {<<(<<"c", "l", "a", "s", "s">>), "Class">>,
     <<(<<"r", "e", "t", "u", "r", "n">>), "Return">>,
     <<(<<"i", "f">>), "If">>,
     <<(<<"e", "l", "s", "e">>), "Else">>,
     <<(<<"d", "e", "f">>), "Def">>,
     <<(<<"p", "r", "i", "n", "t">>), "Print">>,
     <<(<<"a", "n", "d">>), "And">>,
     <<(<<"o", "r">>), "Or">>,
     <<(<<"n", "o", "t">>), "Not">>,
     <<(<<"N", "o", "n", "e">>), "None">>,
     <<(<<"T", "r", "u", "e">>), "True">>,
     <<(<<"F", "a", "l", "s", "e">>), "False">>}

StructureTokens == {"Newline", "Indent", "Dedent", "Eof"}

\* Number, Id, String, Char, a keyword or a two-character comparison.
IsContent(tok) == tok.type \notin StructureTokens

(***************************************************************************)
(* The input stream.  Reading an exhausted stream gives EOF and leaves it  *)
(* exhausted; putback of the character just read restores it, and putback  *)
(* after EOF does nothing (the stream has failed).                         *)
(***************************************************************************)
Peek(in) == IF in = <<>> THEN EOF ELSE Head(in)

Ignore(in) == IF in = <<>> THEN in ELSE Tail(in)

\* input_.ignore(max_size, '\n'): drop through the next '\n', or everything.
RECURSIVE IgnoreLine(_)
IgnoreLine(in) ==
    IF in = <<>> THEN in
    ELSE IF Head(in) = "\n" THEN Tail(in)
    ELSE IgnoreLine(Tail(in))

\* for (; input_.peek() == ' '; input_.ignore()) counts and drops spaces.
RECURSIVE CountSpaces(_)
CountSpaces(in) ==
    IF in # <<>> /\ Head(in) = " " THEN 1 + CountSpaces(Tail(in)) ELSE 0

DropSpaces(in) == SubSeq(in, CountSpaces(in) + 1, Len(in))

(***************************************************************************)
(* Lexer::SkipUselessSymbols: skips the leading spaces, then whole comment *)
(* lines and empty lines (starting over, with a fresh count, after each),  *)
(* and sets indent_diff_ and indent_ from the spaces counted last.         *)
(***************************************************************************)
RECURSIVE SkipUselessSymbols(_)
\* A SkipUselessSymbols that skips comment lines but stops at an empty line.
SkipKeepingEmptyLines(L) ==
    LET spaces == CountSpaces(L.input)
        in == DropSpaces(L.input)
    IN  IF Peek(in) = "#"
        THEN SkipUselessSymbols([L EXCEPT !.input = IgnoreLine(in)])
        ELSE [L EXCEPT !.input = in,
                       !.indent_diff = (spaces \div 2) - L.indent,
                       !.indent = spaces \div 2]

SkipUselessSymbols(L) ==
    LET spaces == CountSpaces(L.input)
        in == DropSpaces(L.input)
    IN  IF Peek(in) = "#"
        THEN SkipUselessSymbols([L EXCEPT !.input = IgnoreLine(in)])
        ELSE IF Peek(in) = "\n"
        THEN SkipUselessSymbols([L EXCEPT !.input = Ignore(in)])
        ELSE [L EXCEPT !.input = in,
                       !.indent_diff = (spaces \div 2) - L.indent,
                       !.indent = spaces \div 2]

\* Lexer::GetIndentDedent, with the assignment to token_ of its caller.
GetIndentDedent(L) ==
    IF L.indent_diff > 0
    THEN [L EXCEPT !.indent_diff = @ - 1, !.token = Tok("Indent")]
    ELSE [L EXCEPT !.indent_diff = @ + 1, !.token = Tok("Dedent")]

\* The longest prefix of in whose characters all are in the set cls.
RECURSIVE TakeWhile(_, _)
TakeWhile(in, cls) ==
    IF in # <<>> /\ Head(in) \in cls
    THEN <<Head(in)>> \o TakeWhile(Tail(in), cls)
    ELSE <<>>

DigitSeq == <<"0", "1", "2", "3", "4", "5", "6", "7", "8", "9">>

DigitVal(c) == (CHOOSE i \in 1..10 : DigitSeq[i] = c) - 1

\* The value std::stoi reads from a run of digits; -1 when it does not fit
\* an int (std::stoi throws std::out_of_range).
RECURSIVE Stoi(_, _)
Stoi(digits, acc) ==
    IF digits = <<>> THEN acc
    ELSE IF acc > (IntMax - DigitVal(Head(digits))) \div 10 THEN -1
    ELSE Stoi(Tail(digits), acc * 10 + DigitVal(Head(digits)))

\* Lexer::GetNumber.
GetNumber(L) ==
    LET number == TakeWhile(L.input, Digits)
        in == SubSeq(L.input, Len(number) + 1, Len(L.input))
        v == Stoi(number, 0)
    IN  IF v < 0
        THEN [L EXCEPT !.input = in, !.status = "out_of_range"]
        ELSE [L EXCEPT !.input = in, !.token = TokNum(v)]

\* Lexer::GetName.
GetName(L) ==
    LET word == TakeWhile(L.input, Letters \cup Digits \cup {"_"})
        in == SubSeq(L.input, Len(word) + 1, Len(L.input))
        kw == {p \in keyword_to_token : p[1] = word}
    IN  IF kw # {}
        THEN [L EXCEPT !.input = in, !.token = Tok((CHOOSE p \in kw : TRUE)[2])]
        ELSE [L EXCEPT !.input = in, !.token = TokStr("Id", word)]

\* The loop of Lexer::GetStrLiteral after the opening quote: the text read
\* and the input left.  On an exhausted stream get() gives EOF, which is
\* neither the quote nor a backslash: the loop appends it and goes on for
\* ever (closed = FALSE).
RECURSIVE StrLiteralLoop(_, _, _)
StrLiteralLoop(in, open_ch, text) ==
    IF in = <<>> THEN [closed |-> FALSE, text |-> text, input |-> in]
    ELSE LET ch == Head(in) IN
         IF ch # open_ch /\ ch # "\\"
         THEN StrLiteralLoop(Tail(in), open_ch, Append(text, ch))
         ELSE IF ch = "\\"
         THEN IF Tail(in) = <<>>
              THEN [closed |-> FALSE, text |-> text, input |-> <<>>]
              ELSE LET e == Head(Tail(in))
                       c == IF e = "n" THEN "\n" ELSE IF e = "t" THEN "\t" ELSE e
                   IN  StrLiteralLoop(Tail(Tail(in)), open_ch, Append(text, c))
         ELSE [closed |-> TRUE, text |-> text, input |-> Tail(in)]

\* Lexer::GetStrLiteral.
GetStrLiteral(L) ==
    LET r == StrLiteralLoop(Tail(L.input), Head(L.input), <<>>)
    IN  IF r.closed
        THEN [L EXCEPT !.input = r.input, !.token = TokStr("String", r.text)]
        ELSE [L EXCEPT !.input = r.input, !.status = "hang"]

\* Lexer::GetCompOperator: input_.get(&op[0], 3) reads two characters.
GetCompOperator(L) ==
    LET op == SubSeq(L.input, 1, 2)
        in == SubSeq(L.input, 3, Len(L.input))
    IN  IF op = <<"<", "=">> THEN [L EXCEPT !.input = in, !.token = Tok("LessOrEq")]
        ELSE IF op = <<">", "=">> THEN [L EXCEPT !.input = in, !.token = Tok("GreaterOrEq")]
        ELSE IF op = <<"=", "=">> THEN [L EXCEPT !.input = in, !.token = Tok("Eq")]
        ELSE IF op = <<"!", "=">> THEN [L EXCEPT !.input = in, !.token = Tok("NotEq")]
        ELSE [L EXCEPT !.status = "LexerError"]

\* The '#' branch of NextToken once the comment is dropped and
\* SkipUselessSymbols has run: what stands next decides the token.
CommentBranch(L, next) ==
    IF Peek(L.input) = EOF THEN [L EXCEPT !.token = Tok("Eof")]
    ELSE IF Peek(L.input) = "#" THEN next
    ELSE [L EXCEPT !.token = Tok("Newline")]

(***************************************************************************)
(* Lexer::NextToken.  The token returned is the token_ of the result; a    *)
(* throw leaves token_ as it was and sets status.  NextTokenBody is the    *)
(* function from its second test on; NextToken puts the Eof test first.    *)
(***************************************************************************)
RECURSIVE NextToken(_)
NextTokenBody(L) ==
    LET L1 == IF L.token = Tok("Newline") THEN SkipUselessSymbols(L) ELSE L
    IN  IF L1.indent_diff # 0 THEN GetIndentDedent(L1)
        ELSE
        LET L2 == [L1 EXCEPT !.input = DropSpaces(L1.input)]
            ch == Peek(L2.input)
            L3 == [L2 EXCEPT !.input = Ignore(L2.input)]
        IN  IF ch = EOF
            THEN IF L2.token \in {Tok("Indent"), Tok("Dedent"), Tok("Newline")}
                 THEN [L3 EXCEPT !.token = Tok("Eof")]
                 ELSE [L3 EXCEPT !.token = Tok("Newline")]
            ELSE IF ch = "\n" THEN [L3 EXCEPT !.token = Tok("Newline")]
            ELSE IF ch \in Digits THEN GetNumber(L2)
            ELSE IF ch = "'" \/ ch = "\"" THEN GetStrLiteral(L2)
            ELSE IF ch = "#"
            THEN LET L4 == SkipUselessSymbols([L3 EXCEPT !.input = IgnoreLine(L3.input)])
                 IN  CommentBranch(L4, NextToken(L4))
            ELSE IF ch = "=" /\ Peek(L3.input) # "="
            THEN [L3 EXCEPT !.token = TokStr("Char", <<"=">>)]
            ELSE IF ch \in comparison_symbols /\ Peek(L3.input) = "="
            THEN GetCompOperator(L2)
            ELSE IF ch \in Letters \/ ch = "_" THEN GetName(L2)
            ELSE IF ch \in special_symbols THEN [L3 EXCEPT !.token = TokStr("Char", <<ch>>)]
            ELSE [L3 EXCEPT !.status = "LexerError"]

\* NextToken without its first test: an advance past Eof lexes on.
NextTokenNoEofTest(L) == NextTokenBody(L)

NextToken(L) ==
    IF L.token = Tok("Eof") THEN L ELSE NextTokenBody(L)

\* Lexer::Lexer: the members' initial values, then the constructor's body.
LexerCtor(input) ==
    LET L0 == [input |-> input, token |-> TokNum(0), indent |-> 0,
               indent_diff |-> 0, status |-> "ok"]
        L1 == SkipUselessSymbols(L0)
    IN  NextToken([L1 EXCEPT !.token = Tok("Newline")])

\* Lexer::CurrentToken.
CurrentToken(L) == L.token

(***************************************************************************)
(* The lexer as a state machine: the client (the parser, or the token dump *)
(* loop of the test driver) constructs the Lexer over the source and calls *)
(* NextToken again and again, also after Eof.                              *)
(***************************************************************************)
SeqsUpTo(S, n) == UNION {[1..k -> S] : k \in 0..n}

LexAlphabet == {" ", "\n", "#", "a", ":"}

\* The tokens handed out after construction: the constructor's token, or
\* none when the constructor threw.
Handed(L) == IF L.status = "ok" THEN <<L.token>> ELSE <<>>

NumEof(ts) == Cardinality({i \in 1..Len(ts) : ts[i].type = "Eof"})

LexInit ==
    /\ source \in SeqsUpTo(LexAlphabet, MaxSrcLen)
    /\ lexer = LexerCtor(source)
    /\ tokens = Handed(lexer)
    /\ source2 = <<>>
    /\ lexer2 = LexerCtor(<<>>)
    /\ tokens2 = Handed(lexer2)
    /\ NoProgram

\* One call of Lexer::NextToken by the client.
CallNextToken ==
    /\ lexer.status = "ok"
    /\ NumEof(tokens) <= MaxEofCalls
    /\ lexer' = NextToken(lexer)
    /\ tokens' = IF lexer'.status = "ok" THEN Append(tokens, lexer'.token) ELSE tokens
    /\ UNCHANGED <<source, source2, lexer2, tokens2>>
    /\ UNCHANGED evalvars

LexNext == CallNextToken

SpecLexer == LexInit /\ [][LexNext]_vars

(***************************************************************************)
(* Sources that begin with an integer literal: the short runs of digits,   *)
(* and longer ones around the largest int and the largest 64-bit integer,  *)
(* alone or followed by more of the line.                                  *)
(***************************************************************************)
LiteralDigits == {"0", "1", "9"}

LongLiterals ==
    {<<"2", "1", "4", "7", "4", "8", "3", "6", "4", "7">>,
     <<"2", "1", "4", "7", "4", "8", "3", "6", "4", "8">>,
     <<"4", "2", "9", "4", "9", "6", "7", "2", "9", "6">>,
     <<"0", "0", "0", "0", "0", "0", "0", "0", "0", "0", "0", "2">>,
     <<"9", "2", "2", "3", "3", "7", "2", "0", "3", "6",
       "8", "5", "4", "7", "7", "5", "8", "0", "7">>}

Literals == (SeqsUpTo(LiteralDigits, MaxDigits) \ {<<>>}) \cup LongLiterals

LiteralSources == {l \o rest : l \in Literals, rest \in {<<>>, <<"\n">>, <<" ", "7">>}}

NumberInit ==
    /\ source \in LiteralSources
    /\ lexer = LexerCtor(source)
    /\ tokens = Handed(lexer)
    /\ source2 = <<>>
    /\ lexer2 = LexerCtor(<<>>)
    /\ tokens2 = Handed(lexer2)
    /\ NoProgram

SpecNumber == NumberInit /\ [][LexNext]_vars

(***************************************************************************)
(* Sources made of quotes, backslashes and text, for the string literals;  *)
(* the client of the lexer calls NextToken until Eof (the loop of the      *)
(* token dump), so a call that is possible is made.                        *)
(***************************************************************************)
StringAlphabet == {"'", "\"", "\\", "a", "\n"}

StringInit ==
    /\ source \in SeqsUpTo(StringAlphabet, MaxStrLen)
    /\ lexer = LexerCtor(source)
    /\ tokens = Handed(lexer)
    /\ source2 = <<>>
    /\ lexer2 = LexerCtor(<<>>)
    /\ tokens2 = Handed(lexer2)
    /\ NoProgram

SpecString == StringInit /\ [][LexNext]_vars /\ WF_vars(LexNext)

(***************************************************************************)
(* Lines of a source, for stating the claims about the lexer.              *)
(***************************************************************************)
\* The index of the first '\n' of src, or Len(src) + 1.
LineEnd(src) ==
    IF \E i \in 1..Len(src) : src[i] = "\n"
    THEN CHOOSE i \in 1..Len(src) :
             src[i] = "\n" /\ \A j \in 1..(i - 1) : src[j] # "\n"
    ELSE Len(src) + 1

\* The lines of src without their '\n'; an unterminated last line counts.
RECURSIVE SplitLines(_)
SplitLines(src) ==
    IF src = <<>> THEN <<>>
    ELSE <<SubSeq(src, 1, LineEnd(src) - 1)>>
             \o SplitLines(SubSeq(src, LineEnd(src) + 1, Len(src)))

\* Neither blank (empty or spaces only) nor a comment line.
IsContentLine(line) ==
    LET r == DropSpaces(line) IN r # <<>> /\ Head(r) # "#"

ContentLines(src) == SelectSeq(SplitLines(src), IsContentLine)

\* The content of a line: what stands before its comment, without the
\* spaces around it.
RECURSIVE DropTrailingSpaces(_)
DropTrailingSpaces(line) ==
    IF line # <<>> /\ line[Len(line)] = " "
    THEN DropTrailingSpaces(SubSeq(line, 1, Len(line) - 1))
    ELSE line

BeforeComment(line) ==
    IF \E i \in 1..Len(line) : line[i] = "#"
    THEN SubSeq(line, 1, (CHOOSE i \in 1..Len(line) :
                              line[i] = "#" /\ \A j \in 1..(i - 1) : line[j] # "#") - 1)
    ELSE line

OpensBlock(line) ==
    LET c == DropTrailingSpaces(BeforeComment(line))
    IN  c # <<>> /\ c[Len(c)] = ":"

\* A well-formed source: two-space indentation on every line, the first
\* line a content line and unindented, no line of spaces only, and the
\* depth grows by one unit exactly after a line that ends in ':' (a
\* trailing comment set aside).
WellFormed(src) ==
    LET lines == SplitLines(src)
        content == ContentLines(src)
    IN  /\ \A i \in 1..Len(lines) : CountSpaces(lines[i]) % 2 = 0
        /\ \A i \in 1..Len(lines) : lines[i] # <<>> => DropSpaces(lines[i]) # <<>>
        /\ lines # <<>> => IsContentLine(lines[1]) /\ CountSpaces(lines[1]) = 0
        /\ \A i \in 1..Len(content) :
               LET next == IF i < Len(content)
                           THEN CountSpaces(content[i + 1]) ELSE 0
               IN  IF OpensBlock(content[i])
                   THEN i < Len(content) /\ next = CountSpaces(content[i]) + 2
                   ELSE next <= CountSpaces(content[i])

Balance(ts) ==
    Cardinality({i \in 1..Len(ts) : ts[i].type = "Indent"})
        - Cardinality({i \in 1..Len(ts) : ts[i].type = "Dedent"})

\* The index of the first Eof of ts, or 0.
FirstEof(ts) ==
    IF \E i \in 1..Len(ts) : ts[i].type = "Eof"
    THEN CHOOSE i \in 1..Len(ts) :
             ts[i].type = "Eof" /\ \A j \in 1..(i - 1) : ts[j].type # "Eof"
    ELSE 0

\* C5: for a well-formed source, Indent minus Dedent is never negative in
\* any prefix of the tokens, and is zero when Eof is first emitted.
C5_IndentDedentBalance ==
    WellFormed(source) =>
        /\ \A k \in 1..Len(tokens) : Balance(SubSeq(tokens, 1, k)) >= 0
        /\ FirstEof(tokens) > 0 => Balance(SubSeq(tokens, 1, FirstEof(tokens))) = 0

\* n copies of x.
Copies(n, x) == [i \in 1..n |-> x]

\* What the indentation rule asks for: before the content of each content
\* line ("L"), |new - indent| Indent or Dedent, new = leading spaces / 2.
RECURSIVE ExpectedIndents(_, _)
ExpectedIndents(lines, indent) ==
    IF lines = <<>> THEN <<>>
    ELSE LET new == CountSpaces(Head(lines)) \div 2
         IN  (IF new > indent THEN Copies(new - indent, "Indent")
              ELSE Copies(indent - new, "Dedent"))
                 \o <<"L">> \o ExpectedIndents(Tail(lines), new)

\* The tokens with each line's content tokens drawn together into one "L",
\* Newline and Eof left out.
RECURSIVE LineShape(_, _)
LineShape(ts, inLine) ==
    IF ts = <<>> THEN <<>>
    ELSE IF IsContent(Head(ts))
    THEN (IF inLine THEN <<>> ELSE <<"L">>) \o LineShape(Tail(ts), TRUE)
    ELSE IF Head(ts).type \in {"Indent", "Dedent"}
    THEN <<Head(ts).type>> \o LineShape(Tail(ts), FALSE)
    ELSE LineShape(Tail(ts), FALSE)

\* seq up to its last "L".
RECURSIVE UpToLastLine(_)
UpToLastLine(seq) ==
    IF seq = <<>> \/ seq[Len(seq)] = "L" THEN seq
    ELSE UpToLastLine(SubSeq(seq, 1, Len(seq) - 1))

IsPrefix(a, b) == Len(a) <= Len(b) /\ a = SubSeq(b, 1, Len(a))

NumLines(shape) == Cardinality({i \in 1..Len(shape) : shape[i] = "L"})

\* The last token is the first content token of its line.
AtLineStart(ts) ==
    /\ ts # <<>>
    /\ IsContent(ts[Len(ts)])
    /\ Len(ts) > 1 => ~IsContent(ts[Len(ts) - 1])

\* C6: before the content of every content line the lexer emits exactly
\* new - indent Indent tokens (new > indent) or indent - new Dedent tokens,
\* new = leading spaces / 2, indent the depth of the previous content line
\* (0 at the start); and indent_ = new once the content starts.
C6_IndentRule ==
    LET shape == UpToLastLine(LineShape(tokens, FALSE))
        lines == ContentLines(source)
    IN  /\ IsPrefix(shape, ExpectedIndents(lines, 0))
        /\ (lexer.status = "ok" /\ AtLineStart(tokens) /\ NumLines(shape) <= Len(lines))
               => lexer.indent = CountSpaces(lines[NumLines(shape)]) \div 2

\* C7: the token before the first Eof is never a content token (at the end
\* of input a Newline is made up after content, and only then Eof).
C7_NoContentBeforeEof ==
    FirstEof(tokens) > 1 => ~IsContent(tokens[FirstEof(tokens) - 1])

\* C8: once NextToken has returned Eof, a later call returns Eof again and
\* changes nothing of the lexer: token_, input_, indent_, indent_diff_.
C8_EofIsSink ==
    [][lexer.token = Tok("Eof")
          => /\ lexer' = lexer
             /\ tokens' # tokens => tokens' = Append(tokens, Tok("Eof"))]_lexvars

\* Reached: NextToken was called twice after Eof, with an indentation
\* change still pending and input that was cut short.
C8_Witness ==
    /\ NumEof(tokens) >= 3
    /\ lexer.indent_diff # 0
    /\ Len(source) >= 5

(***************************************************************************)
(* Two lexers side by side: one over a source, one over the same source    *)
(* with a trailing comment deleted or a blank or comment line inserted.    *)
(***************************************************************************)
\* The index at which the line around position k of src starts.
LineStart(src, k) ==
    CHOOSE i \in 1..k :
        /\ i = 1 \/ src[i - 1] = "\n"
        /\ \A j \in i..(k - 1) : src[j] # "\n"

\* src[k] starts a comment that trails content on its line.  (No source of
\* the model holds a string literal, so every '#' is outside of one.)
IsTrailingComment(src, k) ==
    /\ src[k] = "#"
    /\ \A j \in LineStart(src, k)..(k - 1) : src[j] # "#"
    /\ \E j \in LineStart(src, k)..(k - 1) : src[j] # " "

\* src without the comment that starts at k: the '#' and what follows it
\* up to, not including, the end of the line.
DeleteComment(src, k) ==
    LET rest == SubSeq(src, k, Len(src))
    IN  SubSeq(src, 1, k - 1) \o SubSeq(rest, LineEnd(rest), Len(rest))

CommentDeletions(src) ==
    {DeleteComment(src, k) : k \in {i \in 1..Len(src) : IsTrailingComment(src, i)}}

\* Blank lines (empty, or spaces only) and comment lines.
SkippedLines ==
    {l \in SeqsUpTo({" ", "#", "a"}, MaxInsertLen) : ~IsContentLine(l)}

\* src with a skipped line put in front of the line that starts at p, or,
\* behind a terminated last line, as the new last line with or without '\n'.
LineInsertions(src) ==
    {SubSeq(src, 1, p - 1) \o l \o <<"\n">> \o SubSeq(src, p, Len(src)) :
        <<p, l>> \in {pl \in (1..(Len(src) + 1)) \X SkippedLines :
                         pl[1] = 1 \/ src[pl[1] - 1] = "\n"}}
    \cup {src \o l : l \in {x \in SkippedLines :
                               x # <<>> /\ (src = <<>> \/ src[Len(src)] = "\n")}}

TwinInit ==
    /\ source \in SeqsUpTo(LexAlphabet, MaxTwinLen)
    /\ source2 \in CommentDeletions(source) \cup LineInsertions(source)
    /\ lexer = LexerCtor(source)
    /\ tokens = Handed(lexer)
    /\ lexer2 = LexerCtor(source2)
    /\ tokens2 = Handed(lexer2)
    /\ NoProgram

Lexing(L) == L.status = "ok" /\ L.token # Tok("Eof")

\* Both clients call NextToken until their lexer gives Eof.
TwinNextToken ==
    /\ Lexing(lexer) \/ Lexing(lexer2)
    /\ lexer' = IF Lexing(lexer) THEN NextToken(lexer) ELSE lexer
    /\ tokens' = IF Lexing(lexer) /\ lexer'.status = "ok"
                 THEN Append(tokens, lexer'.token) ELSE tokens
    /\ lexer2' = IF Lexing(lexer2) THEN NextToken(lexer2) ELSE lexer2
    /\ tokens2' = IF Lexing(lexer2) /\ lexer2'.status = "ok"
                  THEN Append(tokens2, lexer2'.token) ELSE tokens2
    /\ UNCHANGED <<source, source2>>
    /\ UNCHANGED evalvars

TwinNext == TwinNextToken

SpecTwin == TwinInit /\ [][TwinNext]_vars

BothDone == ~Lexing(lexer) /\ ~Lexing(lexer2)

\* C9: deleting a comment that trails content on a line leaves the token
\* sequence exactly as it was, up to and including Eof.
C9_CommentsIgnored ==
    (BothDone /\ source2 \in CommentDeletions(source)) => tokens2 = tokens

\* C10: a blank line or a comment line makes no token: inserting one
\* anywhere, also as the last line, leaves the token sequence as it was.
C10_SkippedLinesMakeNoToken ==
    (BothDone /\ source2 \in LineInsertions(source)) => tokens2 = tokens

(***************************************************************************)
(* The runtime.  An object of the heap records its dynamic type (kind),    *)
(* the value of a ValueObject (num for a Number, and 0 or 1 for a Bool;    *)
(* str, the characters, for a String), the class of a ClassInstance (or    *)
(* the name of a Class), the fields_ of a ClassInstance, the use count of  *)
(* the shared_ptr control block that owns it, and whether it has been          *)
(* destroyed.  A destroyed object keeps its place: a holder that still     *)
(* refers to it dangles.                                                   *)
(***************************************************************************)
Object(kind, num, str, cls) ==
    [kind |-> kind, num |-> num, str |-> str, cls |-> cls,
     fields |-> EmptyClosure, rc |-> 0, alive |-> TRUE]

\* A set of holders in some order, to release them one after another.
RECURSIVE Holders(_)
Holders(clo) ==
    IF DOMAIN clo = {} THEN <<>>
    ELSE LET k == CHOOSE n \in DOMAIN clo : TRUE
         IN <<clo[k]>> \o Holders([n \in DOMAIN clo \ {k} |-> clo[n]])

\* Copying an ObjectHolder: one more owner when the holder owns.
Retain(hp, h) ==
    IF h.own /\ h.ref # 0 THEN [hp EXCEPT ![h.ref].rc = @ + 1] ELSE hp

\* Destroying the ObjectHolders hs: each owner less; the last owner destroys
\* the object, and with a ClassInstance its fields_.  A sharing holder has
\* the deleter that does nothing.
RECURSIVE ReleaseAll(_, _)
ReleaseAll(hp, hs) ==
    IF hs = <<>> THEN hp
    ELSE LET h == Head(hs) IN
         IF ~h.own \/ h.ref = 0 THEN ReleaseAll(hp, Tail(hs))
         ELSE IF hp[h.ref].rc > 1
              THEN ReleaseAll([hp EXCEPT ![h.ref].rc = @ - 1], Tail(hs))
              ELSE ReleaseAll([hp EXCEPT ![h.ref].rc = 0,
                                         ![h.ref].alive = FALSE,
                                         ![h.ref].fields = EmptyClosure],
                              Holders(hp[h.ref].fields) \o Tail(hs))

Release(hp, h) == ReleaseAll(hp, <<h>>)

\* ObjectHolder::operator bool and TryAs<ClassInstance>.
IsInstance(hp, h) == h.ref # 0 /\ hp[h.ref].kind = "Instance"

Dangling(hp, h) == h.ref # 0 /\ ~hp[h.ref].alive

\* An IsTrue for which only the numbers above 0 are true.
IsTrueOfPositive(hp, h) ==
    IF h.ref = 0 THEN FALSE
    ELSE IF hp[h.ref].kind \in {"Number", "Bool"} THEN hp[h.ref].num > 0
    ELSE IF hp[h.ref].kind = "String" THEN hp[h.ref].str # <<>>
    ELSE FALSE

\* IsTrue of runtime.cpp.
IsTrue(hp, h) ==
    IF h.ref = 0 THEN FALSE
    ELSE IF hp[h.ref].kind \in {"Number", "Bool"} THEN hp[h.ref].num # 0
    ELSE IF hp[h.ref].kind = "String" THEN hp[h.ref].str # <<>>
    ELSE FALSE

(***************************************************************************)
(* The machine an Execute runs on: the heap, the stack of the scopes of    *)
(* the calls in progress (the last one is the closure the statement was    *)
(* given), and the record of events.  acts numbers the method activations  *)
(* of the scopes, 0 for the top level.  oracle is what a use of a          *)
(* destroyed object does in this run: "crash" ends the process, "stale"    *)
(* reads the memory as the destructor left it.  order is the order in      *)
(* which this build evaluates the arguments of a function call, which C++  *)
(* leaves open.                                                            *)
(***************************************************************************)
UseAfterFree == {"crash", "stale"}

ArgumentOrder == {"left_first", "right_first"}

Top(M) == M.scopes[Len(M.scopes)]

Act(M) == M.acts[Len(M.acts)]

SetTop(M, clo) == [M EXCEPT !.scopes[Len(M.scopes)] = clo]

Event(e, what, act, val, flag) ==
    [e |-> e, what |-> what, act |-> act, val |-> val, flag |-> flag,
     pre |-> <<>>, post |-> <<>>]

Record(M, ev) == [M EXCEPT !.log = Append(@, ev)]

\* The result of an Execute: the machine after it and the holder returned.
Res(M, v) == [m |-> M, val |-> v]

Failed(r) == r.m.status # "ok"

\* throw runtime_error: main has no handler, the process ends.
Throw(M) == Res([M EXCEPT !.status = "runtime_error"], None)

\* A member access through a null pointer.
NullDeref(M) == Res([M EXCEPT !.status = "crash", !.ub = TRUE], None)

\* The object of holder h is about to be read or written.
Touch(M, h) ==
    IF Dangling(M.heap, h)
    THEN [M EXCEPT !.ub = TRUE,
                   !.status = IF M.oracle = "crash" THEN "crash" ELSE @]
    ELSE M

\* closure[key] = h on the statement's closure: the holder moves in, the
\* holder that was there is destroyed.
Bind(M, key, h) ==
    LET clo == Top(M)
        old == IF key \in DOMAIN clo THEN clo[key] ELSE None
        M1 == SetTop(M, Put(clo, key, h))
    IN [M1 EXCEPT !.heap = Release(M1.heap, old)]

\* fields[key] = h on the fields_ of instance r.
SetField(M, r, key, h) ==
    LET fs == M.heap[r].fields
        old == IF key \in DOMAIN fs THEN fs[key] ELSE None
        hp1 == [M.heap EXCEPT ![r].fields = Put(fs, key, h)]
    IN [M EXCEPT !.heap = Release(hp1, old)]

(***************************************************************************)
(* The statements of the AST (statement.h).  A ValueStatement names the    *)
(* place of its value_ member in the heap: the constant lives as long as   *)
(* the AST.  NewInstance names its class_, ClassDefinition the place of    *)
(* the Class object its cls_ holder owns.                                  *)
(***************************************************************************)
ValueStatement(r) == [node |-> "ValueStatement", value |-> r]

NoneStatement == [node |-> "None"]

VariableValue(ids) == [node |-> "VariableValue", ids |-> ids]

Assignment(var, rv) == [node |-> "Assignment", var |-> var, rv |-> rv]

FieldAssignment(object, field_name, rv) ==
    [node |-> "FieldAssignment", object |-> object, field_name |-> field_name, rv |-> rv]

MethodCall(object, method, args) ==
    [node |-> "MethodCall", object |-> object, method |-> method, args |-> args]

NewInstance(class, args) == [node |-> "NewInstance", class |-> class, args |-> args]

Return(statement) == [node |-> "Return", statement |-> statement]

Compound(statements) == [node |-> "Compound", statements |-> statements]

IfElse(condition, if_body, else_body) ==
    [node |-> "IfElse", condition |-> condition, if_body |-> if_body, else_body |-> else_body]

ClassDefinition(cls) == [node |-> "ClassDefinition", cls |-> cls]

MethodBody(body) == [node |-> "MethodBody", body |-> body]

\* cmp is the name of the comparator the node holds in cmp_.
Comparison(cmp, lhs, rhs) == [node |-> "Comparison", cmp |-> cmp, lhs |-> lhs, rhs |-> rhs]

Add(lhs, rhs) == [node |-> "Add", lhs |-> lhs, rhs |-> rhs]

Sub(lhs, rhs) == [node |-> "Sub", lhs |-> lhs, rhs |-> rhs]

Mult(lhs, rhs) == [node |-> "Mult", lhs |-> lhs, rhs |-> rhs]

Div(lhs, rhs) == [node |-> "Div", lhs |-> lhs, rhs |-> rhs]

Stringify(argument) == [node |-> "Stringify", argument |-> argument]

\* The statement print args.
PrintOf(args) == [node |-> "Print", args |-> args]

Not(argument) == [node |-> "Not", argument |-> argument]

Or(lhs, rhs) == [node |-> "Or", lhs |-> lhs, rhs |-> rhs]

And(lhs, rhs) == [node |-> "And", lhs |-> lhs, rhs |-> rhs]

\* An empty unique_ptr<Statement>: the else_body_ of an if without else.
NullStatement == [node |-> "null"]

\* struct Method of runtime.h.
Method(name, formal_params, body) ==
    [name |-> name, formal_params |-> formal_params, body |-> MethodBody(Compound(body))]

\* The nullptr of Class::GetMethod.
NoMethod == [name |-> "", formal_params |-> <<>>, body |-> NullStatement]

(***************************************************************************)
(* The program that is run.  Its AST holds two numeric constants and its   *)
(* classes; the heap starts with their objects.  Class A gathers the       *)
(* method shapes the runtime has to get right; P, Q and R are a family for *)
(* dispatch: Q inherits from P and defines m anew with another parameter   *)
(* count, P has methods that rebind self, R has an __init__ with a result. *)
(*                                                                         *)
(*   class A:                                                              *)
(*     def me(self):          return self                                  *)
(*     def early(self, c):                                                 *)
(*       if c:                                                             *)
(*         return 1                                                        *)
(*       else:                                                             *)
(*         self.n = 0                                                      *)
(*       self.n = 1                                                        *)
(*       return None                                                       *)
(*     def keep(self, o):     self.f = o                                   *)
(*     def setx(self):                                                     *)
(*       x = self                                                          *)
(*       y = A()                                                           *)
(*       return y                                                          *)
(*     def nest(self, o):     return o.me()                                *)
(*     def local(self):                                                    *)
(*       returned_value = 1                                                *)
(*       self.n = 1                                                        *)
(*     def clash(self, returned_value):                                    *)
(*       self.n = 1                                                        *)
(*       self.n = 0                                                        *)
(*   class returned_value:                                                 *)
(*     (no methods)                                                        *)
(*   class P:                                                              *)
(*     def __init__(self, a): self.v = a                                   *)
(*     def m(self):           return 0                                     *)
(*     def only(self):        return 1                                     *)
(*     def drop(self):                                                     *)
(*       self = None                                                       *)
(*       return 1                                                          *)
(*     def swap(self, o):                                                  *)
(*       self = o                                                          *)
(*       return 1                                                          *)
(*   class Q(P):                                                           *)
(*     def m(self, a):                                                     *)
(*       self.v = a                                                        *)
(*       return a                                                          *)
(*   class R:                                                              *)
(*     def __init__(self):    return 1                                     *)
(*                                                                         *)
(* T, V, Eq and Lt are classes with overloads: V's compare the field n of  *)
(* the two operands, T's answer 1 whatever the operands, Eq has an __eq__  *)
(* of one parameter only, Lt an __lt__ of one parameter only.              *)
(*                                                                         *)
(*   class T:                                                              *)
(*     def __eq__(self, o):   return 1                                     *)
(*     def __lt__(self, o):   return 1                                     *)
(*     def __add__(self, o):  return o                                     *)
(*   class V:                                                              *)
(*     def __eq__(self, o):   return self.n == o.n                         *)
(*     def __lt__(self, o):   return self.n < o.n                          *)
(*     def __add__(self, o):  return self.n + o.n                          *)
(*   class Eq:                                                             *)
(*     def __eq__(self, o):      return 1                                  *)
(*     def __lt__(self, o, p):   return 1                                  *)
(*     def __add__(self):        return 1                                  *)
(*   class Lt:                                                             *)
(*     def __lt__(self, o):   return 0                                     *)
(*     def __str__(self):     return None                                  *)
(*     def __init__(self, a, b): self.n = b                                *)
(***************************************************************************)
OneAt == 1

ZeroAt == 2

ClassAAt == 3

ClassRvAt == 4

ClassPAt == 5

ClassQAt == 6

ClassRAt == 7

ClassTAt == 8

ClassVAt == 9

ClassEqAt == 10

ClassLtAt == 11

One == ValueStatement(OneAt)

Zero == ValueStatement(ZeroAt)

Self == VariableValue(<<"self">>)

Classes ==
    [A |->
       [name |-> "A", parent |-> "",
        methods |-> <<
          Method("me", <<>>, <<Return(Self)>>),
          Method("early", <<"c">>,
                 <<IfElse(VariableValue(<<"c">>),
                          Compound(<<Return(One)>>),
                          Compound(<<FieldAssignment(Self, "n", Zero)>>)),
                   FieldAssignment(Self, "n", One),
                   Return(NoneStatement)>>),
          Method("keep", <<"o">>, <<FieldAssignment(Self, "f", VariableValue(<<"o">>))>>),
          Method("setx", <<>>,
                 <<Assignment("x", Self),
                   Assignment("y", NewInstance("A", <<>>)),
                   Return(VariableValue(<<"y">>))>>),
          Method("nest", <<"o">>,
                 <<Return(MethodCall(VariableValue(<<"o">>), "me", <<>>))>>),
          Method("local", <<>>,
                 <<Assignment("returned_value", One),
                   FieldAssignment(Self, "n", One)>>),
          Method("outer", <<>>, <<Return(VariableValue(<<"x">>))>>),
          Method("clash", <<"returned_value">>,
                 <<FieldAssignment(Self, "n", One),
                   FieldAssignment(Self, "n", Zero)>>) >>],
     returned_value |->
       [name |-> "returned_value", parent |-> "", methods |-> <<>>],
     P |->
       [name |-> "P", parent |-> "",
        methods |-> <<
          Method("__init__", <<"a">>, <<FieldAssignment(Self, "v", VariableValue(<<"a">>))>>),
          Method("m", <<>>, <<Return(Zero)>>),
          Method("only", <<>>, <<Return(One)>>),
          Method("drop", <<>>, <<Assignment("self", NoneStatement), Return(One)>>),
          Method("swap", <<"o">>,
                 <<Assignment("self", VariableValue(<<"o">>)), Return(One)>>) >>],
     Q |->
       [name |-> "Q", parent |-> "P",
        methods |-> <<
          Method("m", <<"a">>,
                 <<FieldAssignment(Self, "v", VariableValue(<<"a">>)),
                   Return(VariableValue(<<"a">>))>>) >>],
     R |->
       [name |-> "R", parent |-> "",
        methods |-> << Method("__init__", <<>>, <<Return(One)>>) >>],
     T |->
       [name |-> "T", parent |-> "",
        methods |-> <<
          Method("__eq__", <<"o">>, <<Return(One)>>),
          Method("__lt__", <<"o">>, <<Return(One)>>),
          Method("__add__", <<"o">>, <<Return(VariableValue(<<"o">>))>>),
          Method("__str__", <<>>, <<Return(Stringify(One))>>) >>],
     V |->
       [name |-> "V", parent |-> "",
        methods |-> <<
          Method("__eq__", <<"o">>,
                 <<Return(Comparison("Equal", VariableValue(<<"self", "n">>),
                                     VariableValue(<<"o", "n">>)))>>),
          Method("__lt__", <<"o">>,
                 <<Return(Comparison("Less", VariableValue(<<"self", "n">>),
                                     VariableValue(<<"o", "n">>)))>>),
          Method("__add__", <<"o">>,
                 <<Return(Add(VariableValue(<<"self", "n">>),
                              VariableValue(<<"o", "n">>)))>>),
          Method("__str__", <<>>, <<Return(VariableValue(<<"self", "n">>))>>) >>],
     Eq |->
       [name |-> "Eq", parent |-> "",
        methods |-> <<
          Method("__eq__", <<"o">>, <<Return(One)>>),
          Method("__lt__", <<"o", "p">>, <<Return(One)>>),
          Method("__add__", <<>>, <<Return(One)>>),
          Method("__str__", <<"o">>, <<Return(VariableValue(<<"o">>))>>) >>],
     Lt |->
       [name |-> "Lt", parent |-> "",
        methods |-> <<
          Method("__lt__", <<"o">>, <<Return(Zero)>>),
          Method("__str__", <<>>, <<Return(NoneStatement)>>),
          Method("__init__", <<"a", "b">>,
                 <<FieldAssignment(Self, "n", VariableValue(<<"b">>))>>) >>]]

\* The objects the AST owns: the value_ of each constant, and the Class
\* objects, each owned by the cls_ holder of its ClassDefinition.
LoadedHeap ==
    <<Object("Number", 1, <<>>, ""),
      Object("Number", 0, <<>>, ""),
      [Object("Class", 0, <<>>, "A") EXCEPT !.rc = 1],
      [Object("Class", 0, <<>>, "returned_value") EXCEPT !.rc = 1],
      [Object("Class", 0, <<>>, "P") EXCEPT !.rc = 1],
      [Object("Class", 0, <<>>, "Q") EXCEPT !.rc = 1],
      [Object("Class", 0, <<>>, "R") EXCEPT !.rc = 1],
      [Object("Class", 0, <<>>, "T") EXCEPT !.rc = 1],
      [Object("Class", 0, <<>>, "V") EXCEPT !.rc = 1],
      [Object("Class", 0, <<>>, "Eq") EXCEPT !.rc = 1],
      [Object("Class", 0, <<>>, "Lt") EXCEPT !.rc = 1]>>

\* A lookup that asks the parent before the class itself.
RECURSIVE GetMethodParentFirst(_, _, _)
GetMethodParentFirst(cs, c, name) ==
    LET ms == cs[c].methods
        own == {i \in 1..Len(ms) : ms[i].name = name}
        up == IF cs[c].parent # "" THEN GetMethodParentFirst(cs, cs[c].parent, name)
              ELSE NoMethod
    IN IF up # NoMethod THEN up
       ELSE IF own # {} THEN ms[CHOOSE i \in own : \A j \in own : j <= i]
       ELSE NoMethod

\* Class::GetMethod among the classes cs: the class's own method of that
\* name (the last one, as the constructor lets a later method overwrite
\* name_to_method_), else the parent's.
RECURSIVE GetMethodIn(_, _, _)
GetMethodIn(cs, c, name) ==
    LET ms == cs[c].methods
        own == {i \in 1..Len(ms) : ms[i].name = name}
    IN IF own # {} THEN ms[CHOOSE i \in own : \A j \in own : j <= i]
       ELSE IF cs[c].parent # "" THEN GetMethodIn(cs, cs[c].parent, name)
       ELSE NoMethod

\* A HasMethod that is content with any ancestor's definition of that
\* parameter count.
RECURSIVE HasMethodInAnyAncestor(_, _, _, _)
HasMethodInAnyAncestor(cs, c, method, argc) ==
    \/ \E i \in 1..Len(cs[c].methods) :
          cs[c].methods[i].name = method /\ Len(cs[c].methods[i].formal_params) = argc
    \/ cs[c].parent # "" /\ HasMethodInAnyAncestor(cs, cs[c].parent, method, argc)

\* ClassInstance::HasMethod on an instance of class c of cs.
HasMethodIn(cs, c, method, argc) ==
    LET m == GetMethodIn(cs, c, method)
    IN m # NoMethod /\ Len(m.formal_params) = argc

\* The two on the classes of the program.
GetMethod(c, name) == GetMethodIn(Classes, c, name)

HasMethod(c, method, argc) == HasMethodIn(Classes, c, method, argc)

(***************************************************************************)
(* Execute, statement by statement.  Each operator gives the machine after *)
(* the C++ function returned and the holder it returned; a temporary is    *)
(* released where C++ destroys it.                                         *)
(***************************************************************************)
RECURSIVE Execute(_, _)
RECURSIVE ExecuteArgs(_, _, _)
RECURSIVE CompoundLoop(_, _, _)
RECURSIVE Call(_, _, _, _)
RECURSIVE ObjectPrint(_, _)

\* v under the name the operator F gives it: a local variable of the C++.
With(v, F(_)) == F(v)

\* The value of a statement executed for its effect is destroyed.
Discard(r) ==
    IF Failed(r) THEN r ELSE Res([r.m EXCEPT !.heap = Release(@, r.val)], None)

\* ValueStatement<T>::Execute: a sharing holder of the node's value_.
ValueStatementExecute(M, node) == Res(M, Share(node.value))

\* Fields()[id]: the fields_ with the field made when it was missing.
FieldsAt(fs, id) == IF id \in DOMAIN fs THEN fs ELSE Put(fs, id, None)

\* The loop of VariableValue::Execute from ids_[i] on; obj is the local.
RECURSIVE FieldChain(_, _, _, _)
FieldChain(M, obj, ids, i) ==
    IF i > Len(ids) THEN Res(M, obj)
    ELSE With(Touch(M, obj), LAMBDA M1 :
         IF M1.status # "ok" THEN Res(M1, None)
         ELSE IF ~IsInstance(M1.heap, obj) THEN Throw(M1)
         ELSE With(FieldsAt(M1.heap[obj.ref].fields, ids[i]), LAMBDA fs :
              \* obj = ptr->Fields()[ids_[i]]
              FieldChain([M1 EXCEPT !.heap =
                             Release(Retain([@ EXCEPT ![obj.ref].fields = fs], fs[ids[i]]),
                                     obj)],
                         fs[ids[i]], ids, i + 1)))

\* A VariableValue begins to evaluate its ids_ (pre), post being the scopes
\* and the heap it finds; and has returned a holder (val).
Reading(M, ids) ==
    Record(M, [Event("read", "VariableValue", Act(M), None, FALSE)
                  EXCEPT !.pre = ids, !.post = [scopes |-> M.scopes, heap |-> M.heap]])

HasRead(r, ids) ==
    IF Failed(r) THEN r
    ELSE Res(Record(r.m, [Event("value", "VariableValue", Act(r.m), r.val, FALSE)
                             EXCEPT !.pre = ids,
                                    !.post = [scopes |-> r.m.scopes, heap |-> r.m.heap]]),
             r.val)

\* A VariableValue::Execute that looks a name up in the top-level scope
\* when the closure it was given does not have it.
VariableValueInAnyScope(M, node) ==
    IF node.ids[1] \notin DOMAIN Top(M) \cup DOMAIN M.scopes[1] THEN Throw(Reading(M, node.ids))
    ELSE With(IF node.ids[1] \in DOMAIN Top(M) THEN Top(M)[node.ids[1]]
              ELSE M.scopes[1][node.ids[1]],
              LAMBDA obj :
         HasRead(FieldChain([Reading(M, node.ids) EXCEPT !.heap = Retain(@, obj)],
                            obj, node.ids, 2),
                 node.ids))

\* VariableValue::Execute.
VariableValueExecute(M, node) ==
    IF node.ids[1] \notin DOMAIN Top(M) THEN Throw(Reading(M, node.ids))
    ELSE With(Top(M)[node.ids[1]], LAMBDA obj :
         HasRead(FieldChain([Reading(M, node.ids) EXCEPT !.heap = Retain(@, obj)],
                            obj, node.ids, 2),
                 node.ids))

\* The object of a FieldAssignment or a MethodCall has evaluated to h, on
\* which TryAs<ClassInstance>() is about to be used; post is the scopes
\* and the heap at that moment.
Receiving(M, what, h) ==
    Record(M, [Event("receiver", what, Act(M), h, FALSE)
                  EXCEPT !.post = [scopes |-> M.scopes, heap |-> M.heap]])

\* Assignment::Execute: the right side first, then closure[var_] takes the
\* holder; the statement's value is a copy of it.
AssignmentExecute(M, node) ==
    With(Execute(M, node.rv), LAMBDA r :
    IF Failed(r) THEN r
    ELSE Res([Bind(r.m, node.var, r.val) EXCEPT !.heap = Retain(@, r.val)], r.val))

\* FieldAssignment::Execute.  The holder object_ evaluated to is a temporary
\* of the first line; a null TryAs is used only by fields[...], after rv_
\* has run.
FieldAssignmentExecute(M, node) ==
    With(VariableValueExecute(M, node.object), LAMBDA o :
    IF Failed(o) THEN o
    ELSE With(Touch(Receiving(o.m, node.node, o.val), o.val), LAMBDA M1 :
         IF M1.status # "ok" THEN Res(M1, None)
         ELSE With(Execute([M1 EXCEPT !.heap = Release(@, o.val)], node.rv), LAMBDA r :
              IF Failed(r) THEN r
              ELSE IF ~IsInstance(M1.heap, o.val) THEN NullDeref(r.m)
              ELSE With(Touch(r.m, o.val), LAMBDA M2 :
                   IF M2.status # "ok" THEN Res(M2, None)
                   ELSE Res([SetField(M2, o.val.ref, node.field_name, r.val)
                                EXCEPT !.heap = Retain(@, r.val)],
                            r.val)))))

\* Return::Execute.
ReturnExecute(M, node) ==
    With(Execute(M, node.statement), LAMBDA r :
    IF Failed(r) THEN r
    ELSE Res(Record(Bind(r.m, "returned_value", r.val),
                    Event("return", "Return", Act(r.m), r.val, TRUE)),
             None))

\* ClassDefinition::Execute: closure[name] = cls_, a copy of the owner.
ClassDefinitionExecute(M, node) ==
    Res(Bind([M EXCEPT !.heap = Retain(@, Own(node.cls))],
             M.heap[node.cls].cls, Own(node.cls)),
        None)

\* IfElse::Execute.
IfElseExecute(M, node) ==
    With(Execute(M, node.condition), LAMBDA c :
    IF Failed(c) THEN c
    ELSE With(Touch(c.m, c.val), LAMBDA M1 :
         IF M1.status # "ok" THEN Res(M1, None)
         ELSE With([M1 EXCEPT !.heap = Release(@, c.val)], LAMBDA M2 :
              IF IsTrue(M1.heap, c.val) THEN Discard(Execute(M2, node.if_body))
              ELSE IF node.else_body # NullStatement
                   THEN Discard(Execute(M2, node.else_body))
              ELSE Res(M2, None))))

\* The test of Compound::Execute after statement st, whose value was r.val
\* and has been destroyed in d.
CompoundTest(r, d, st) ==
    IF Failed(r) THEN [m |-> r.m, halt |-> TRUE, val |-> None, live |-> TRUE]
    ELSE [m |-> Record(d.m, Event("seen", st.node, Act(d.m), None,
                                  "returned_value" \in DOMAIN Top(d.m))),
          halt |-> "returned_value" \in DOMAIN Top(d.m),
          val |-> r.val,
          live |-> ~Dangling(r.m.heap, r.val)]

\* One turn of the loop of Compound::Execute: the statement, then the test
\* of the key.  halt says the loop returns.
CompoundStep(M, st) ==
    With(Execute(Record(M, Event("stmt", st.node, Act(M), None, FALSE)), st), LAMBDA r :
    CompoundTest(r, Discard(r), st))

CompoundLoop(M, sts, i) ==
    IF i > Len(sts) THEN Res(M, None)
    ELSE With(CompoundStep(M, sts[i]), LAMBDA t :
         IF t.halt THEN Res(t.m, None) ELSE CompoundLoop(t.m, sts, i + 1))

CompoundExecute(M, node) == CompoundLoop(M, node.statements, 1)

\* MethodBody::Execute.
MethodBodyExecute(M, node) ==
    With(Discard(Execute(M, node.body)), LAMBDA r :
    IF Failed(r) THEN r
    ELSE IF "returned_value" \in DOMAIN Top(r.m)
         THEN Res([r.m EXCEPT !.heap = Retain(@, Top(r.m)["returned_value"])],
                  Top(r.m)["returned_value"])
         ELSE Res(r.m, None))

\* The arguments, left to right, into a vector of holders.
ExecuteArgs(M, args, vals) ==
    IF args = <<>> THEN [m |-> M, vals |-> vals]
    ELSE With(Execute(M, Head(args)), LAMBDA r :
         IF Failed(r) THEN [m |-> r.m, vals |-> vals]
         ELSE ExecuteArgs(r.m, Tail(args), Append(vals, r.val)))

\* The local `closure` of ClassInstance::Call comes to life: a new scope,
\* a new activation.
PushScope(M, clo) ==
    [M EXCEPT !.scopes = Append(@, clo),
              !.acts = Append(@, M.nact + 1),
              !.nact = @ + 1]

\* A Call whose scope outlives it: its bindings end up in the caller's
\* scope.
PopScopeIntoCaller(M) ==
    [M EXCEPT !.scopes = Append(SubSeq(@, 1, Len(@) - 2),
                                [k \in DOMAIN @[Len(@) - 1] \cup DOMAIN @[Len(@)] |->
                                    IF k \in DOMAIN @[Len(@)] THEN @[Len(@)][k]
                                    ELSE @[Len(@) - 1][k]]),
              !.acts = SubSeq(@, 1, Len(@) - 1)]

\* The local `closure` of ClassInstance::Call is destroyed when Call
\* returns: its holders are released, and the caller's scope is again the
\* innermost one.
PopScope(M) ==
    [M EXCEPT !.heap = ReleaseAll(@, Holders(Top(M))),
              !.scopes = SubSeq(@, 1, Len(@) - 1),
              !.acts = SubSeq(@, 1, Len(@) - 1)]

\* closure[formal_params[i]] = args[i], a copy, for i, i + 1, ...
RECURSIVE BindParams(_, _, _, _)
BindParams(M, formal_params, args, i) ==
    IF i > Len(args) THEN M
    ELSE BindParams(Bind([M EXCEPT !.heap = Retain(@, args[i])], formal_params[i], args[i]),
                    formal_params, args, i + 1)

\* What a call could reach when it began, and the state it left.
Snapshot(M, roots) == [scopes |-> M.scopes, heap |-> M.heap, roots |-> roots]

\* The end of ClassInstance::Call in the activation act: same says self is
\* still the receiver, ret is what Call returns, M3 the machine once res
\* and the local closure are destroyed.
CallExit(M, this, method, args, act, same, ret, M3) ==
    Res(Record(M3, [Event("exit", method, act, ret, same) EXCEPT
                       !.pre = Snapshot(M, {this} \cup {args[i].ref : i \in 1..Len(args)}),
                       !.post = Snapshot(M3, {this} \cup {args[i].ref : i \in 1..Len(args)})]),
        ret)

\* Call has been entered, on the instance at `this` with argc arguments.
CallEntry(M, this, method, argc) ==
    Record(M, [Event("call", method, Act(M), Share(this), FALSE) EXCEPT
                  !.pre = Snapshot(M, {this}),
                  !.post = [cls |-> M.heap[this].cls, argc |-> argc]])

\* The body of the method has returned r in the call's scope.
CallBody(r, this, method) ==
    Record(r.m, [Event("body", method, Act(r.m), r.val, FALSE) EXCEPT
                    !.pre = Share(this),
                    !.post = Top(r.m)["self"]])

\* A Call that returns what the body returned, whatever self is bound to.
CallReturn(M, r, this, method, args) ==
    CallExit(M, this, method, args, Act(r.m), TRUE, r.val, PopScope(CallBody(r, this, method)))

\* The return of ClassInstance::Call after the body gave r: the scope's
\* self when it is no longer the receiver, else the body's value.
CallResult(M, r, this, method, args) ==
    IF Top(r.m)["self"].ref = this
    THEN CallExit(M, this, method, args, Act(r.m), TRUE, r.val,
                  PopScope(CallBody(r, this, method)))
    ELSE With(Top(r.m)["self"], LAMBDA self :
         CallExit(M, this, method, args, Act(r.m), FALSE, self,
                  PopScope([CallBody(r, this, method) EXCEPT !.heap =
                               Release(Retain(@, self), r.val)])))

\* ClassInstance::Call on the instance at `this`.
Call(M, this, method, args) ==
    IF ~HasMethod(M.heap[this].cls, method, Len(args))
    THEN Throw(CallEntry(M, this, method, Len(args)))
    ELSE With(BindParams(PushScope(CallEntry(M, this, method, Len(args)),
                                   Put(EmptyClosure, "self", Share(this))),
                         GetMethod(M.heap[this].cls, method).formal_params, args, 1),
              LAMBDA M1 :
         With(Execute(Record(M1, Event("enter", method, Act(M1), None,
                                       "returned_value" \in DOMAIN Top(M1))),
                      GetMethod(M.heap[this].cls, method).body),
              LAMBDA r :
         IF Failed(r) THEN r ELSE CallResult(M, r, this, method, args)))

\* MethodCall::Execute: the arguments, then the receiver; the receiver's
\* holder is a temporary of the return statement, curr_args a local.
MethodCallExecute(M, node) ==
    With(ExecuteArgs(M, node.args, <<>>), LAMBDA a :
    IF a.m.status # "ok" THEN Res(a.m, None)
    ELSE With(Execute(a.m, node.object), LAMBDA o :
         IF Failed(o) THEN o
         ELSE With(Touch(Receiving(o.m, node.node, o.val), o.val), LAMBDA M1 :
              IF M1.status # "ok" THEN Res(M1, None)
              ELSE IF ~IsInstance(M1.heap, o.val) THEN NullDeref(M1)
              ELSE With(Call(M1, o.val.ref, node.method, a.vals), LAMBDA c :
                   IF Failed(c) THEN c
                   ELSE Res([c.m EXCEPT !.heap = ReleaseAll(@, <<o.val>> \o a.vals)],
                            c.val)))))

\* NewInstance::Execute returns val for the instance it made at `this`.
Made(M, node, this, val) ==
    Res(Record(M, [Event("made", node.class, Act(M), val, FALSE) EXCEPT !.pre = Share(this)]),
        val)

\* The rest of NewInstance::Execute once __init__ has been called with the
\* arguments a.vals and gave c.
NewInstanceCalled(a, c, node, this) ==
    IF Failed(c) THEN c
    ELSE IF c.val.ref # 0
         THEN Made([c.m EXCEPT !.heap = ReleaseAll(@, <<Own(this)>> \o a.vals)],
                   node, this, c.val)
    ELSE Made([c.m EXCEPT !.heap = ReleaseAll(@, a.vals)], node, this, Own(this))

\* A NewInstance that calls whatever __init__ the class has.
NewInstanceInitAnyArity(M1, node, this, method) ==
    IF method = NoMethod
    THEN Made(M1, node, this, Own(this))
    ELSE With(ExecuteArgs(M1, node.args, <<>>), LAMBDA a :
         IF a.m.status # "ok" THEN Res(a.m, None)
         ELSE NewInstanceCalled(a, Call(a.m, this, "__init__", a.vals), node, this))

\* A NewInstance that evaluates its arguments before it looks at __init__.
NewInstanceArgsFirst(M1, node, this, method) ==
    With(ExecuteArgs(M1, node.args, <<>>), LAMBDA a :
         IF a.m.status # "ok" THEN Res(a.m, None)
         ELSE IF method = NoMethod \/ Len(method.formal_params) # Len(node.args)
              THEN Made([a.m EXCEPT !.heap = ReleaseAll(@, a.vals)], node, this, Own(this))
         ELSE NewInstanceCalled(a, Call(a.m, this, "__init__", a.vals), node, this))

\* NewInstance::Execute on the machine M1 that has the new instance at
\* `this`, owned by the local obj.
NewInstanceInit(M1, node, this, method) ==
    IF method = NoMethod \/ Len(method.formal_params) # Len(node.args)
    THEN Made(M1, node, this, Own(this))
    ELSE With(ExecuteArgs(M1, node.args, <<>>), LAMBDA a :
         IF a.m.status # "ok" THEN Res(a.m, None)
         ELSE NewInstanceCalled(a, Call(a.m, this, "__init__", a.vals), node, this))

\* obj = Own(ClassInstance(class_)): the new instance, at the end of the
\* heap.
NewInstanceObject(M, node) ==
    With([M EXCEPT !.heap = Append(@, [Object("Instance", 0, <<>>, node.class)
                                          EXCEPT !.rc = 1])], LAMBDA M1 :
    Record(M1, [Event("new", node.class, Act(M1), Own(Len(M1.heap)), FALSE) EXCEPT
                   !.pre = Snapshot(M1, {Len(M1.heap)}),
                   !.post = [argc |-> Len(node.args), args |-> node.args]]))

\* NewInstance::Execute.
NewInstanceExecute(M, node) ==
    NewInstanceInit(NewInstanceObject(M, node), node, Len(M.heap) + 1,
                    GetMethod(node.class, "__init__"))

(***************************************************************************)
(* The comparison functions of runtime.cpp.  Each gives the machine after  *)
(* it and, as val, the bool it returned.  "primcall" is the event of Equal *)
(* or Less being entered, "prim" of its returning (flag: the bool; pre:    *)
(* the operands).                                                          *)
(***************************************************************************)
\* ObjectHolder::Own(object): a new object, owned by the holder returned.
OwnNew(M, obj) ==
    Res([M EXCEPT !.heap = Append(@, [obj EXCEPT !.rc = 1])], Own(Len(M.heap) + 1))

\* The order of char, for the characters strings are made of here.
CharOrder == <<"a", "b">>

CharCode(c) == CHOOSE i \in 1..Len(CharOrder) : CharOrder[i] = c

\* operator< of std::string.
RECURSIVE StringLess(_, _)
StringLess(s, t) ==
    IF t = <<>> THEN FALSE
    ELSE IF s = <<>> THEN TRUE
    ELSE IF Head(s) # Head(t) THEN CharCode(Head(s)) < CharCode(Head(t))
    ELSE StringLess(Tail(s), Tail(t))

\* left->GetValue() == right->GetValue() and left->GetValue() < right->GetValue()
\* on two objects of one of the kinds Bool, Number, String.
ValueEqual(o, p) == IF o.kind = "String" THEN o.str = p.str ELSE o.num = p.num

ValueLess(o, p) == IF o.kind = "String" THEN StringLess(o.str, p.str) ELSE o.num < p.num

PrimEntered(M, prim, lhs, rhs) ==
    Record(M, [Event("primcall", prim, Act(M), None, FALSE) EXCEPT !.pre = <<lhs, rhs>>])

PrimReturn(M, prim, lhs, rhs, b) ==
    Res(Record(M, [Event("prim", prim, Act(M), None, b) EXCEPT !.pre = <<lhs, rhs>>]), b)

\* The branch of Equal and Less for a left operand that is a Bool, a Number
\* or a String: the right one must be of the same kind.
CompareValues(M, prim, lhs, rhs) ==
    IF rhs.ref = 0 THEN Throw(M)
    ELSE With(Touch(M, rhs), LAMBDA M1 :
         IF M1.status # "ok" THEN Res(M1, None)
         ELSE IF M1.heap[rhs.ref].kind # M1.heap[lhs.ref].kind THEN Throw(M1)
         ELSE PrimReturn(M1, prim, lhs, rhs,
                         IF prim = "Equal"
                         THEN ValueEqual(M1.heap[lhs.ref], M1.heap[rhs.ref])
                         ELSE ValueLess(M1.heap[lhs.ref], M1.heap[rhs.ref])))

\* IsTrue of the holder c.val a call returned; the holder and the argument
\* vector {rhs} are temporaries of the return statement.
CompareCalled(c, prim, lhs, rhs) ==
    IF Failed(c) THEN c
    ELSE With(Touch(c.m, c.val), LAMBDA M1 :
         IF M1.status # "ok" THEN Res(M1, None)
         ELSE PrimReturn([M1 EXCEPT !.heap = ReleaseAll(@, <<c.val, rhs>>)],
                         prim, lhs, rhs, IsTrue(M1.heap, c.val)))

\* The branch of Equal and Less for a left operand that is a
\* ClassInstance, and the throw every other case ends in.
CompareOverloaded(M, prim, method, lhs, rhs) ==
    IF M.heap[lhs.ref].kind = "Instance" /\ HasMethod(M.heap[lhs.ref].cls, method, 1)
    THEN CompareCalled(Call([M EXCEPT !.heap = Retain(@, rhs)], lhs.ref, method, <<rhs>>),
                       prim, lhs, rhs)
    ELSE Throw(M)

\* The chain of TryAs tests Equal and Less share.
CompareKinds(M, prim, method, lhs, rhs) ==
    IF lhs.ref = 0 THEN Throw(M)
    ELSE With(Touch(M, lhs), LAMBDA M1 :
         IF M1.status # "ok" THEN Res(M1, None)
         ELSE IF M1.heap[lhs.ref].kind \in {"Bool", "Number", "String"}
              THEN CompareValues(M1, prim, lhs, rhs)
         ELSE CompareOverloaded(M1, prim, method, lhs, rhs))

Equal(M, lhs, rhs) ==
    IF lhs.ref = 0 /\ rhs.ref = 0
    THEN PrimReturn(PrimEntered(M, "Equal", lhs, rhs), "Equal", lhs, rhs, TRUE)
    ELSE CompareKinds(PrimEntered(M, "Equal", lhs, rhs), "Equal", "__eq__", lhs, rhs)

\* A Less that takes two None for not less.
LessOfNone(M, lhs, rhs) ==
    IF lhs.ref = 0 /\ rhs.ref = 0
    THEN PrimReturn(PrimEntered(M, "Less", lhs, rhs), "Less", lhs, rhs, FALSE)
    ELSE CompareKinds(PrimEntered(M, "Less", lhs, rhs), "Less", "__lt__", lhs, rhs)

Less(M, lhs, rhs) ==
    CompareKinds(PrimEntered(M, "Less", lhs, rhs), "Less", "__lt__", lhs, rhs)

\* return !r
Negated(r) == IF Failed(r) THEN r ELSE Res(r.m, ~r.val)

NotEqual(M, lhs, rhs) == Negated(Equal(M, lhs, rhs))

\* A Greater that lets && decide whether Less is computed.
GreaterShortCircuit(M, lhs, rhs) ==
    With(Equal(M, lhs, rhs), LAMBDA e :
    IF Failed(e) THEN e
    ELSE IF e.val THEN Res(e.m, FALSE)
    ELSE Negated(Less(e.m, lhs, rhs)))

\* A Greater that is the negation of Less.
GreaterIsNotLess(M, lhs, rhs) ==
    With(Equal(M, lhs, rhs), LAMBDA e :
    IF Failed(e) THEN e
    ELSE Negated(Less(e.m, lhs, rhs)))

\* bool eq = !Equal(...), ls = !Less(...); return eq && ls;
Greater(M, lhs, rhs) ==
    With(Equal(M, lhs, rhs), LAMBDA e :
    IF Failed(e) THEN e
    ELSE With(Less(e.m, lhs, rhs), LAMBDA s :
         IF Failed(s) THEN s
         ELSE Res(s.m, ~e.val /\ ~s.val)))

LessOrEqual(M, lhs, rhs) == Negated(Greater(M, lhs, rhs))

GreaterOrEqual(M, lhs, rhs) == Negated(Less(M, lhs, rhs))

\* cmp_(lhs, rhs, context)
Comparator(M, cmp, lhs, rhs) ==
    CASE cmp = "Equal" -> Equal(M, lhs, rhs)
      [] cmp = "NotEqual" -> NotEqual(M, lhs, rhs)
      [] cmp = "Less" -> Less(M, lhs, rhs)
      [] cmp = "Greater" -> Greater(M, lhs, rhs)
      [] cmp = "LessOrEqual" -> LessOrEqual(M, lhs, rhs)
      [] cmp = "GreaterOrEqual" -> GreaterOrEqual(M, lhs, rhs)

\* The two operands of a call f(left_->Execute(...), right_->Execute(...)),
\* in the order the build evaluates arguments: the machine after both and
\* the two holders, left one first.
ExecuteOperands(M, lhs, rhs) ==
    IF M.order = "left_first"
    THEN ExecuteArgs(M, <<lhs, rhs>>, <<>>)
    ELSE With(ExecuteArgs(M, <<rhs, lhs>>, <<>>), LAMBDA a :
         IF a.m.status # "ok" THEN a ELSE [m |-> a.m, vals |-> <<a.vals[2], a.vals[1]>>])

\* Own(Bool(b)), with the operands, temporaries of the return statement,
\* destroyed once it is made.
ComparisonResult(c, node, vals) ==
    IF Failed(c) THEN c
    ELSE With(OwnNew([c.m EXCEPT !.heap = ReleaseAll(@, vals)],
                     Object("Bool", IF c.val THEN 1 ELSE 0, <<>>, "")),
              LAMBDA r :
         Res(Record(r.m, [Event("compared", node.cmp, Act(r.m), r.val, c.val)
                             EXCEPT !.pre = vals, !.post = c.m.heap]),
             r.val))

\* Comparison::Execute.
ComparisonExecute(M, node) ==
    With(ExecuteOperands(M, node.lhs, node.rhs), LAMBDA a :
    IF a.m.status # "ok" THEN Res(a.m, None)
    ELSE ComparisonResult(
            Comparator(Record(a.m, [Event("compare", node.cmp, Act(a.m), None, FALSE)
                                       EXCEPT !.pre = a.vals, !.post = a.m.heap]),
                       node.cmp, a.vals[1], a.vals[2]),
            node, a.vals))

(***************************************************************************)
(* Arithmetic.  A Number holds a C++ int, of 32 bits; an int expression    *)
(* whose result does not fit is undefined behaviour, of which the oracle   *)
(* settles the outcome: the process ends, or it goes on with the bits the  *)
(* hardware left, the result modulo 2^32.  The operators below never form  *)
(* an integer outside the range of int.                                    *)
(***************************************************************************)
IntMin == -IntMax - 1

AddOverflows(a, b) == (b > 0 /\ a > IntMax - b) \/ (b < 0 /\ a < IntMin - b)

\* a + b modulo 2^32.
WrapAdd(a, b) ==
    IF ~AddOverflows(a, b) THEN a + b
    ELSE IF b > 0 THEN (a + IntMin) + (b + IntMin)
    ELSE (a - IntMin) + (b - IntMin)

SubOverflows(a, b) == (b < 0 /\ a > IntMax + b) \/ (b > 0 /\ a < IntMin + b)

\* a - b modulo 2^32.
WrapSub(a, b) ==
    IF ~SubOverflows(a, b) THEN a - b
    ELSE IF b < 0 THEN (a + IntMin) - (b - IntMin)
    ELSE (a - IntMin) - (b + IntMin)

\* |n|, for n above IntMin.
Abs(n) == IF n < 0 THEN -n ELSE n

\* 2^31 divided by m, for m from 2 on.
HalfRangeDiv(m) == (IntMax \div m) + (IF IntMax % m = m - 1 THEN 1 ELSE 0)

MultOverflows(a, b) ==
    IF a = 0 \/ b = 0 THEN FALSE
    ELSE IF a = IntMin THEN b # 1
    ELSE IF b = IntMin THEN a # 1
    ELSE IF (a < 0) = (b < 0) THEN Abs(a) > IntMax \div Abs(b)
    ELSE Abs(b) # 1 /\ Abs(a) > HalfRangeDiv(Abs(b))

\* The low and the high 16 bits of the int n.
Low16(n) == n % 65536

High16(n) == ((n - Low16(n)) \div 65536) % 65536

\* x * y modulo 2^32, for x and y of 16 bits.
Mult16(x, y) == WrapAdd(WrapAdd(x * (y \div 2), x * (y \div 2)), x * (y % 2))

\* m * 2^16 modulo 2^32, for m of 16 bits.
Shift16(m) == IF m >= 32768 THEN (m - 65536) * 65536 ELSE m * 65536

\* a * b modulo 2^32.
WrapMult(a, b) ==
    WrapAdd(Mult16(Low16(a), Low16(b)),
            Shift16(Low16(WrapAdd(Mult16(High16(a), Low16(b)),
                                  Mult16(Low16(a), High16(b))))))

\* a / b of C++ int, which truncates toward zero; b is not 0, and the
\* quotient fits.
TruncDiv(a, b) ==
    IF b = IntMin THEN (IF a = IntMin THEN 1 ELSE 0)
    ELSE IF a = IntMin
         THEN (IF Abs(b) = 1 THEN IntMin
               ELSE IF b > 0 THEN -HalfRangeDiv(b) ELSE HalfRangeDiv(-b))
    ELSE IF (a < 0) = (b < 0) THEN Abs(a) \div Abs(b)
    ELSE -(Abs(a) \div Abs(b))

\* An int expression has been evaluated whose result does not fit an int.
Overflowed(M) == Record(M, Event("overflow", "int", Act(M), None, TRUE))

\* ObjectHolder::Own(Number(v)), v the value of an int expression that
\* overflowed if ov.
NumberResult(M, ov, v) ==
    IF ov /\ M.oracle = "crash"
    THEN Res([Overflowed(M) EXCEPT !.ub = TRUE, !.status = "crash"], None)
    ELSE OwnNew([(IF ov THEN Overflowed(M) ELSE M) EXCEPT !.ub = @ \/ ov],
                Object("Number", v, <<>>, ""))

\* An operation has its operands (pre: the two holders), and has made its
\* result (val); post is the heap at that moment.
Operating(M, op, left, right) ==
    Record(M, [Event("operate", op, Act(M), None, FALSE)
                  EXCEPT !.pre = <<left, right>>, !.post = M.heap])

Operated(r, op, left, right) ==
    IF Failed(r) THEN r
    ELSE Res(Record(r.m, [Event("operated", op, Act(r.m), r.val, FALSE)
                             EXCEPT !.pre = <<left, right>>, !.post = r.m.heap]),
             r.val)

\* The String and Number branches of Add::Execute; the locals left and
\* right are destroyed when it returns.
AddValues(M, left, right) ==
    IF right.ref = 0 THEN Throw(M)
    ELSE With(Touch(M, right), LAMBDA M1 :
         IF M1.status # "ok" THEN Res(M1, None)
         ELSE IF M1.heap[right.ref].kind # M1.heap[left.ref].kind THEN Throw(M1)
         ELSE IF M1.heap[left.ref].kind = "String"
              THEN OwnNew([M1 EXCEPT !.heap = ReleaseAll(@, <<left, right>>)],
                          Object("String", 0,
                                 M1.heap[left.ref].str \o M1.heap[right.ref].str, ""))
         ELSE NumberResult([M1 EXCEPT !.heap = ReleaseAll(@, <<left, right>>)],
                           AddOverflows(M1.heap[right.ref].num, M1.heap[left.ref].num),
                           WrapAdd(M1.heap[right.ref].num, M1.heap[left.ref].num)))

\* return lp->Call(ADD_METHOD, {right}, context): the vector and the locals
\* are destroyed once the call has returned.
AddCalled(c, left, right) ==
    IF Failed(c) THEN c
    ELSE Res([c.m EXCEPT !.heap = ReleaseAll(@, <<right, left, right>>)], c.val)

AddOperands(M, left, right) ==
    IF left.ref = 0 THEN Throw(M)
    ELSE With(Touch(M, left), LAMBDA M1 :
         IF M1.status # "ok" THEN Res(M1, None)
         ELSE IF M1.heap[left.ref].kind \in {"String", "Number"}
              THEN AddValues(M1, left, right)
         ELSE IF /\ M1.heap[left.ref].kind = "Instance"
                 /\ HasMethod(M1.heap[left.ref].cls, "__add__", 1)
              THEN AddCalled(Call([M1 EXCEPT !.heap = Retain(@, right)],
                                  left.ref, "__add__", <<right>>),
                             left, right)
         ELSE Throw(M1))

\* Add::Execute: left, then right, into two locals.
AddExecute(M, node) ==
    With(ExecuteArgs(M, <<node.lhs, node.rhs>>, <<>>), LAMBDA a :
    IF a.m.status # "ok" THEN Res(a.m, None)
    ELSE Operated(AddOperands(Operating(a.m, "Add", a.vals[1], a.vals[2]),
                              a.vals[1], a.vals[2]),
                  "Add", a.vals[1], a.vals[2]))

\* execute(closure, context).TryAs<Number>(): the pointer to the Number,
\* null for anything else; the holder Execute returned is a temporary of
\* the declarator and is destroyed at its end.
NumberOperand(M, statement) ==
    With(Execute(M, statement), LAMBDA r :
    IF Failed(r) THEN [m |-> r.m, ptr |-> None]
    ELSE With(Touch(r.m, r.val), LAMBDA M1 :
         IF M1.status # "ok" THEN [m |-> M1, ptr |-> None]
         ELSE [m |-> [M1 EXCEPT !.heap = Release(@, r.val)],
               ptr |-> IF r.val.ref # 0 /\ M1.heap[r.val.ref].kind = "Number"
                       THEN Share(r.val.ref) ELSE None]))

\* The declaration of left and right in Sub, Mult and Div.
NumberOperands(M, node) ==
    With(NumberOperand(M, node.lhs), LAMBDA l :
    IF l.m.status # "ok" THEN [m |-> l.m, left |-> None, right |-> None]
    ELSE With(NumberOperand(l.m, node.rhs), LAMBDA r :
         [m |-> r.m, left |-> l.ptr, right |-> r.ptr]))

\* The int expression of the node on the values a and b; b is not 0 in a
\* division.
Arithmetic(M, op, a, b) ==
    CASE op = "Sub" -> NumberResult(M, SubOverflows(a, b), WrapSub(a, b))
      [] op = "Mult" -> NumberResult(M, MultOverflows(a, b), WrapMult(a, b))
      [] op = "Div" ->
            IF a = IntMin /\ b = -1 THEN NumberResult(M, TRUE, IntMin)
            ELSE NumberResult(M, FALSE, TruncDiv(a, b))

\* left->GetValue() and right->GetValue() are read and the expression
\* computed.
ArithmeticOf(M, op, left, right) ==
    With(Touch(Touch(M, left), right), LAMBDA M1 :
    IF M1.status # "ok" THEN Res(M1, None)
    ELSE Arithmetic(M1, op, M1.heap[left.ref].num, M1.heap[right.ref].num))

\* if (right->GetValue()) of Div::Execute.
DivisorTested(M, left, right) ==
    With(Touch(M, right), LAMBDA M1 :
    IF M1.status # "ok" THEN Res(M1, None)
    ELSE IF M1.heap[right.ref].num = 0 THEN Throw(M1)
    ELSE ArithmeticOf(M1, "Div", left, right))

\* if (left && right) ... and the throw behind it.
ArithmeticOn(M, op, left, right) ==
    IF left.ref = 0 \/ right.ref = 0 THEN Throw(M)
    ELSE IF op = "Div" THEN DivisorTested(M, left, right)
    ELSE ArithmeticOf(M, op, left, right)

\* Sub::Execute, Mult::Execute and Div::Execute.
ArithmeticExecute(M, node) ==
    With(NumberOperands(M, node), LAMBDA p :
    IF p.m.status # "ok" THEN Res(p.m, None)
    ELSE Operated(ArithmeticOn(Operating(p.m, node.node, p.left, p.right),
                               node.node, p.left, p.right),
                  node.node, p.left, p.right))

\* IsTrue has been called on the holder h, and has returned t.
Asked(M, h) == Record(M, Event("istrue", "IsTrue", Act(M), h, FALSE))

Told(M, h, t) == Record(M, Event("truth", "IsTrue", Act(M), h, t))

\* IsTrue of the holder r.val an Execute returned, a temporary that is
\* destroyed when the full expression ends; arg is the holder, val what
\* IsTrue returned.
Truth(r) ==
    IF Failed(r) THEN [m |-> r.m, arg |-> None, val |-> FALSE]
    ELSE With(Touch(Asked(r.m, r.val), r.val), LAMBDA M1 :
         IF M1.status # "ok" THEN [m |-> M1, arg |-> r.val, val |-> FALSE]
         ELSE [m |-> Told(M1, r.val, IsTrue(M1.heap, r.val)),
               arg |-> r.val, val |-> IsTrue(M1.heap, r.val)])

\* Own(Bool(!t.val)), after which the temporary t.arg is destroyed.
Inverted(t) ==
    IF Failed(t) THEN Res(t.m, None)
    ELSE With(OwnNew(t.m, Object("Bool", IF t.val THEN 0 ELSE 1, <<>>, "")), LAMBDA r :
         Res(Record([r.m EXCEPT !.heap = Release(@, t.arg)],
                    [Event("operated", "Not", Act(r.m), r.val, FALSE)
                        EXCEPT !.pre = <<t.arg>>]),
             r.val))

\* Not::Execute.
NotExecute(M, node) == Inverted(Truth(Execute(M, node.argument)))

\* Or::Execute or And::Execute has been entered (post: the heap then).
Connecting(M, what) ==
    Record(M, [Event("operate", what, Act(M), None, FALSE) EXCEPT !.post = M.heap])

\* return ObjectHolder::Own(Bool(value)) of Or::Execute or And::Execute
\* (flag: the value; post: the heap then).
Connected(M, what, value) ==
    With(OwnNew(M, Object("Bool", IF value THEN 1 ELSE 0, <<>>, "")), LAMBDA r :
         Res(Record(r.m, [Event("operated", what, Act(r.m), r.val, value)
                             EXCEPT !.post = r.m.heap]),
             r.val))

\* Own(Bool(IsTrue(right_->Execute(closure, context)))), after which the
\* temporary t.arg is destroyed.
RightTruth(t, what) ==
    IF Failed(t) THEN Res(t.m, None)
    ELSE With(Connected(t.m, what, t.val), LAMBDA r :
         Res([r.m EXCEPT !.heap = Release(@, t.arg)], r.val))

\* bool left = IsTrue(left_->Execute(closure, context)), after which the
\* temporary is destroyed.
LeftTruth(M, node) ==
    With(Truth(Execute(Connecting(M, node.node), node.lhs)), LAMBDA t :
         IF Failed(t) THEN t
         ELSE [t EXCEPT !.m.heap = Release(@, t.arg)])

\* An Or::Execute that evaluates its right operand whatever the left one is.
OrEager(M, node) ==
    With(LeftTruth(M, node), LAMBDA l :
         IF Failed(l) THEN Res(l.m, None)
         ELSE With(Truth(Execute(l.m, node.rhs)), LAMBDA t :
              RightTruth([t EXCEPT !.val = l.val \/ @], "Or")))

\* Or::Execute.
OrExecute(M, node) ==
    With(LeftTruth(M, node), LAMBDA l :
         IF Failed(l) THEN Res(l.m, None)
         ELSE IF ~l.val THEN RightTruth(Truth(Execute(l.m, node.rhs)), "Or")
         ELSE Connected(l.m, "Or", TRUE))

\* And::Execute.
AndExecute(M, node) ==
    With(LeftTruth(M, node), LAMBDA l :
         IF Failed(l) THEN Res(l.m, None)
         ELSE IF l.val THEN RightTruth(Truth(Execute(l.m, node.rhs)), "And")
         ELSE Connected(l.m, "And", FALSE))

(***************************************************************************)
(* Text.  Print of each kind of object, the print statement and str().     *)
(* A text is the sequence of its characters.                               *)
(***************************************************************************)
DigitChars == <<"0", "1", "2", "3", "4", "5", "6", "7", "8", "9">>

HexChars == DigitChars \o <<"a", "b", "c", "d", "e", "f">>

\* The digits of n >= 0.
RECURSIVE DigitsOf(_)
DigitsOf(n) ==
    IF n < 10 THEN <<DigitChars[n + 1]>>
    ELSE Append(DigitsOf(n \div 10), DigitChars[(n % 10) + 1])

\* os << value_ for an int.
DecimalOf(n) ==
    IF n >= 0 THEN DigitsOf(n)
    ELSE IF n = IntMin THEN <<"-">> \o DigitsOf(IntMax \div 10) \o <<"8">>
    ELSE <<"-">> \o DigitsOf(-n)

\* The characters of the names of the classes.
Spelling ==
    [A |-> <<"A">>,
     returned_value |-> <<"r", "e", "t", "u", "r", "n", "e", "d", "_",
                          "v", "a", "l", "u", "e">>,
     P |-> <<"P">>, Q |-> <<"Q">>, R |-> <<"R">>, T |-> <<"T">>, V |-> <<"V">>,
     Eq |-> <<"E", "q">>, Lt |-> <<"L", "t">>]

\* os << this: the address of the object at r, whose place in memory is
\* its place in the heap.
AddressOf(r) == <<"0", "x", HexChars[(r \div 16) + 1], HexChars[(r % 16) + 1]>>

\* What a Print gave: the machine after it and the characters it wrote.
Written(M, text) == [m |-> M, text |-> text]

\* ValueObject<T>::Print, Bool::Print and Class::Print of the object o.
ValuePrint(o) ==
    CASE o.kind = "Number" -> DecimalOf(o.num)
      [] o.kind = "String" -> o.str
      [] o.kind = "Bool" -> IF o.num # 0 THEN <<"T", "r", "u", "e">>
                            ELSE <<"F", "a", "l", "s", "e">>
      [] o.kind = "Class" -> <<"C", "l", "a", "s", "s", " ">> \o Spelling[o.cls]

\* Call("__str__", {}, context).TryAs<String>()->GetValue() once the call
\* gave c; the holder is a temporary of the statement.
StrValue(c) ==
    IF Failed(c) THEN Written(c.m, <<>>)
    ELSE With(Touch(c.m, c.val), LAMBDA M1 :
         IF M1.status # "ok" THEN Written(M1, <<>>)
         ELSE IF c.val.ref = 0 \/ M1.heap[c.val.ref].kind # "String"
              THEN Written(NullDeref(M1).m, <<>>)
         ELSE Written([M1 EXCEPT !.heap = Release(@, c.val)], M1.heap[c.val.ref].str))

\* ClassInstance::Print on the instance at `this`.
InstancePrint(M, this) ==
    IF GetMethod(M.heap[this].cls, "__str__") # NoMethod
    THEN StrValue(Call(M, this, "__str__", <<>>))
    ELSE Written(M, AddressOf(this))

\* ObjectHolder::AssertIsValid on the holder h: the assertion is logged
\* with its outcome.
AssertIsValid(M, h) ==
    Record(M, Event("deref", "AssertIsValid", Act(M), h, h.ref # 0))

\* h->Print(os, context): operator-> asserts that the holder is not empty.
ObjectPrint(M, h) ==
    IF h.ref = 0 THEN Written(NullDeref(AssertIsValid(M, h)).m, <<>>)
    ELSE With(Touch(AssertIsValid(M, h), h), LAMBDA M1 :
         IF M1.status # "ok" THEN Written(M1, <<>>)
         ELSE IF M1.heap[h.ref].kind = "Instance" THEN InstancePrint(M1, h.ref)
         ELSE Written(M1, ValuePrint(M1.heap[h.ref])))

\* An argument of print is about to be written (val: its holder), and has
\* been written (post: the characters).
Writing(M, h) == Record(M, Event("print", "Print", Act(M), h, FALSE))

Wrote(w, h) ==
    IF Failed(w) THEN w.m
    ELSE Record(w.m, [Event("printed", "Print", Act(w.m), h, FALSE) EXCEPT !.post = w.text])

\* The body of the loop of Print::Execute for an argument that evaluated
\* to r.val; tmp_obj is destroyed at the end of the if statement.
PrintArgument(r, last) ==
    IF Failed(r) THEN r.m
    ELSE With(IF r.val.ref = 0 THEN Written(Writing(r.m, r.val), <<"N", "o", "n", "e">>)
              ELSE ObjectPrint(Writing(r.m, r.val), r.val),
              LAMBDA w :
         \* the characters reach the stream as they are written
         With([w.m EXCEPT !.out = @ \o w.text], LAMBDA M1 :
         IF M1.status # "ok" THEN M1
         ELSE [Wrote(Written(M1, w.text), r.val) EXCEPT
                  !.heap = Release(@, r.val),
                  !.out = IF last THEN @ ELSE Append(@, " ")]))

\* The loop of Print::Execute from args_[i] on, then the newline.
RECURSIVE PrintLoop(_, _, _)
PrintLoop(M, args, i) ==
    IF M.status # "ok" THEN Res(M, None)
    ELSE IF i > Len(args) THEN Res([M EXCEPT !.out = Append(@, "\n")], None)
    ELSE PrintLoop(PrintArgument(Execute(M, args[i]), i = Len(args)), args, i + 1)

\* Print::Execute.
PrintExecute(M, node) == PrintLoop(M, node.args, 1)

\* str() has its argument (pre), and has made its String (val; post: the
\* characters).
Stringified(M, arg, r) ==
    IF Failed(r) THEN r
    ELSE Res(Record(r.m, [Event("operated", "Stringify", Act(r.m), r.val, FALSE)
                             EXCEPT !.pre = <<arg>>, !.post = r.m.heap[r.val.ref].str]),
             r.val)

\* Own(String(os.str())) once os holds w.text; the local obj and the
\* temporary tmp are destroyed.
StringOf(w, obj, tmp) ==
    IF Failed(w) THEN Res(w.m, None)
    ELSE Stringified(w.m, obj,
                     OwnNew([w.m EXCEPT !.heap = ReleaseAll(@, <<tmp, obj>>)],
                            Object("String", 0, w.text, "")))

\* instance->Call("__str__", {}, context)->Print(os, context) once the
\* call gave c.
StrPrinted(c, obj) ==
    IF Failed(c) THEN Res(c.m, None)
    ELSE StringOf(ObjectPrint(c.m, c.val), obj, c.val)

\* Stringify::Execute.
StringifyExecute(M, node) ==
    With(Execute(M, node.argument), LAMBDA r :
    IF Failed(r) THEN r
    ELSE IF r.val.ref = 0
         THEN Stringified(r.m, r.val,
                          OwnNew(r.m, Object("String", 0, <<"N", "o", "n", "e">>, "")))
    ELSE With(Touch(r.m, r.val), LAMBDA M1 :
         IF M1.status # "ok" THEN Res(M1, None)
         ELSE IF /\ M1.heap[r.val.ref].kind = "Instance"
                 /\ HasMethod(M1.heap[r.val.ref].cls, "__str__", 0)
              THEN StrPrinted(Call(M1, r.val.ref, "__str__", <<>>), r.val)
         ELSE StringOf(ObjectPrint(M1, r.val), r.val, None)))

Execute(M, node) ==
    CASE node.node = "ValueStatement" -> ValueStatementExecute(M, node)
      [] node.node = "None" -> Res(M, None)
      [] node.node = "VariableValue" -> VariableValueExecute(M, node)
      [] node.node = "Assignment" -> AssignmentExecute(M, node)
      [] node.node = "FieldAssignment" -> FieldAssignmentExecute(M, node)
      [] node.node = "MethodCall" -> MethodCallExecute(M, node)
      [] node.node = "NewInstance" -> NewInstanceExecute(M, node)
      [] node.node = "Return" -> ReturnExecute(M, node)
      [] node.node = "ClassDefinition" -> ClassDefinitionExecute(M, node)
      [] node.node = "IfElse" -> IfElseExecute(M, node)
      [] node.node = "Compound" -> CompoundExecute(M, node)
      [] node.node = "MethodBody" -> MethodBodyExecute(M, node)
      [] node.node = "Comparison" -> ComparisonExecute(M, node)
      [] node.node = "Add" -> AddExecute(M, node)
      [] node.node \in {"Sub", "Mult", "Div"} -> ArithmeticExecute(M, node)
      [] node.node = "Not" -> NotExecute(M, node)
      [] node.node = "Or" -> OrExecute(M, node)
      [] node.node = "And" -> AndExecute(M, node)
      [] node.node = "Stringify" -> StringifyExecute(M, node)
      [] node.node = "Print" -> PrintExecute(M, node)

(***************************************************************************)
(* The run of a program.  main builds the top-level Compound and executes  *)
(* it against an empty closure; one step of the model is one turn of that  *)
(* Compound's loop.  The statements a program is made of are drawn from    *)
(* Program, so that the runs of the model are the runs of every program of *)
(* up to MaxSteps of these statements (the class definitions above are     *)
(* part of each).                                                          *)
(***************************************************************************)
X == VariableValue(<<"x">>)

Y == VariableValue(<<"y">>)

Program ==
    <<ClassDefinition(ClassAAt),                                  \* class A: ...
      Assignment("x", NewInstance("A", <<>>)),                     \* x = A()
      Assignment("y", MethodCall(X, "me", <<>>)),                  \* y = x.me()
      Assignment("y", X),                                          \* y = x
      Assignment("x", Zero),                                       \* x = 0
      FieldAssignment(X, "f", Y),                                  \* x.f = y
      MethodCall(X, "early", <<One>>),                             \* x.early(1)
      MethodCall(X, "early", <<Zero>>),                            \* x.early(0)
      Assignment("y", MethodCall(X, "setx", <<>>)),                \* y = x.setx()
      MethodCall(X, "keep", <<Y>>),                                \* x.keep(y)
      Assignment("y", MethodCall(X, "nest", <<X>>)),               \* y = x.nest(x)
      MethodCall(X, "local", <<>>),                                \* x.local()
      MethodCall(X, "clash", <<One>>),                             \* x.clash(1)
      Assignment("y", MethodCall(NewInstance("A", <<>>), "me", <<>>)), \* y = A().me()
      Assignment("returned_value", One),                           \* returned_value = 1
      Return(X),                                                   \* return x
      ClassDefinition(ClassRvAt),                                  \* class returned_value:
      MethodCall(Y, "me", <<>>),                                   \* y.me()
      Assignment("y", VariableValue(<<"x", "f">>)),                \* y = x.f
      Assignment("y", VariableValue(<<"x", "f", "f">>)),           \* y = x.f.f
      Assignment("y", MethodCall(X, "outer", <<>>))>>              \* y = x.outer()

\* The machine of a top-level statement: the one scope is main's closure.
Machine(oracle) ==
    [heap |-> heap, scopes |-> <<closure>>, acts |-> <<0>>, nact |-> 0,
     log |-> <<>>, status |-> "ok", oracle |-> oracle, order |-> "left_first",
     ub |-> FALSE, out |-> output]

EvalInit ==
    /\ source = <<>>
    /\ lexer = LexerCtor(<<>>)
    /\ tokens = Handed(lexer)
    /\ source2 = <<>>
    /\ lexer2 = LexerCtor(<<>>)
    /\ tokens2 = Handed(lexer2)
    /\ heap = LoadedHeap
    /\ closure = EmptyClosure
    /\ status = "ok"
    /\ executed = 0
    /\ log = <<>>
    /\ result = NoResult
    /\ output = <<>>
    /\ lookup = NoLookup

\* The state main is left with after a turn t of the top-level loop.
Commit(t) ==
    /\ heap' = t.m.heap
    /\ closure' = t.m.scopes[1]
    /\ status' = t.m.status
    /\ log' = t.m.log
    /\ result' = [val |-> t.val, live |-> t.live, ub |-> t.m.ub]
    /\ output' = t.m.out

\* The top-level Compound executes its next statement, Program[i].  The
\* loop has ended when a statement threw or the key returned_value is in
\* the closure.
ExecuteStatement(i, oracle) ==
    /\ status = "ok"
    /\ "returned_value" \notin DOMAIN closure
    /\ executed < MaxSteps
    /\ Commit(CompoundStep(Machine(oracle), Program[i]))
    /\ executed' = executed + 1
    /\ UNCHANGED <<lexvars, lookup>>

EvalNext == \E i \in 1..Len(Program), oracle \in UseAfterFree : ExecuteStatement(i, oracle)

SpecEval == EvalInit /\ [][EvalNext]_vars

(***************************************************************************)
(* A second program, about dispatch: after the definitions of P, Q and R   *)
(* its statements are drawn from DispatchProgram.                          *)
(***************************************************************************)
DispatchProgram ==
    <<Assignment("x", NewInstance("P", <<One>>)),                  \* x = P(1)
      Assignment("x", NewInstance("P", <<>>)),                     \* x = P()
      Assignment("x", NewInstance("Q", <<Zero>>)),                 \* x = Q(0)
      Assignment("x", NewInstance("Q", <<X, Y>>)),                 \* x = Q(x, y)
      Assignment("y", NewInstance("R", <<>>)),                     \* y = R()
      Assignment("y", NewInstance("R", <<One>>)),                  \* y = R(1)
      Assignment("y", MethodCall(X, "m", <<>>)),                   \* y = x.m()
      Assignment("y", MethodCall(X, "m", <<One>>)),                \* y = x.m(1)
      Assignment("y", MethodCall(X, "only", <<>>)),                \* y = x.only()
      Assignment("y", MethodCall(X, "nope", <<>>)),                \* y = x.nope()
      Assignment("y", MethodCall(X, "drop", <<>>)),                \* y = x.drop()
      Assignment("y", MethodCall(X, "swap", <<Y>>)),               \* y = x.swap(y)
      Assignment("y", MethodCall(X, "swap", <<X>>))>>              \* y = x.swap(x)

\* The machine before the first statement of a program.
Loaded ==
    [heap |-> LoadedHeap, scopes |-> <<EmptyClosure>>, acts |-> <<0>>, nact |-> 0,
     log |-> <<>>, status |-> "ok", oracle |-> "crash", order |-> "left_first",
     ub |-> FALSE, out |-> <<>>]

\* The class definitions at the head of the second program have executed.
Defined ==
    CompoundExecute(Loaded, Compound(<<ClassDefinition(ClassPAt),
                                       ClassDefinition(ClassQAt),
                                       ClassDefinition(ClassRAt)>>)).m

DispatchInit ==
    /\ source = <<>>
    /\ lexer = LexerCtor(<<>>)
    /\ tokens = Handed(lexer)
    /\ source2 = <<>>
    /\ lexer2 = LexerCtor(<<>>)
    /\ tokens2 = Handed(lexer2)
    /\ heap = Defined.heap
    /\ closure = Defined.scopes[1]
    /\ status = "ok"
    /\ executed = 0
    /\ log = <<>>
    /\ result = NoResult
    /\ output = <<>>
    /\ lookup = NoLookup

\* The top-level Compound executes its next statement, DispatchProgram[i].
DispatchStatement(i, oracle) ==
    /\ status = "ok"
    /\ "returned_value" \notin DOMAIN closure
    /\ executed < MaxSteps
    /\ Commit(CompoundStep(Machine(oracle), DispatchProgram[i]))
    /\ executed' = executed + 1
    /\ UNCHANGED <<lexvars, lookup>>

DispatchNext ==
    \E i \in 1..Len(DispatchProgram), oracle \in UseAfterFree : DispatchStatement(i, oracle)

SpecDispatch == DispatchInit /\ [][DispatchNext]_vars

(***************************************************************************)
(* A third program, about comparisons.  After the class definitions it     *)
(* has bound a and b, each to None, to a constant of the AST (a = 2), to a *)
(* class (a = A) or to a new instance (a = V() with a.n = 1); then come    *)
(* up to MaxCompares of the statements of CompareProgram.                  *)
(***************************************************************************)
NoneOperand == [how |-> "none"]

Literal(kind, num, str) == [how |-> "literal", obj |-> Object(kind, num, str, "")]

ClassOperand(at) == [how |-> "class", at |-> at]

InstanceOperand(cls, fields) ==
    [how |-> "instance",
     obj |-> [Object("Instance", 0, <<>>, cls) EXCEPT !.fields = fields, !.rc = 1]]

\* name = <operand> has executed on M.
Given(M, name, op) ==
    CASE op.how = "none" -> Bind(M, name, None)
      [] op.how = "literal" ->
            Bind([M EXCEPT !.heap = Append(@, op.obj)], name, Share(Len(M.heap) + 1))
      [] op.how = "class" ->
            Bind([M EXCEPT !.heap = Retain(@, Own(op.at))], name, Own(op.at))
      [] op.how = "instance" ->
            Bind([M EXCEPT !.heap = Append(@, op.obj)], name, Own(Len(M.heap) + 1))

Instances ==
    {InstanceOperand(c, EmptyClosure) : c \in {"A", "T", "V", "Eq", "Lt"}}
       \cup {InstanceOperand("V", [n \in {"n"} |-> Share(at)]) : at \in {ZeroAt, OneAt}}

CompareOperands ==
    {NoneOperand, ClassOperand(ClassAAt)}
       \cup {Literal("Bool", n, <<>>) : n \in 0..1}
       \cup {Literal("Number", n, <<>>) : n \in {-7, 0, 2}}
       \cup {Literal("String", 0, str) : str \in {<<>>, <<"a">>, <<"a", "b">>}}
       \cup Instances

\* The class definitions at the head of the third program have executed.
DefinedOverloads ==
    CompoundExecute(Loaded, Compound(<<ClassDefinition(ClassAAt),
                                       ClassDefinition(ClassTAt),
                                       ClassDefinition(ClassVAt),
                                       ClassDefinition(ClassEqAt),
                                       ClassDefinition(ClassLtAt)>>)).m

VarA == VariableValue(<<"a">>)

VarB == VariableValue(<<"b">>)

CompareProgram ==
    <<Assignment("eq", Comparison("Equal", VarA, VarB)),           \* eq = a == b
      Assignment("ne", Comparison("NotEqual", VarA, VarB)),        \* ne = a != b
      Assignment("lt", Comparison("Less", VarA, VarB)),            \* lt = a < b
      Assignment("gt", Comparison("Greater", VarA, VarB)),         \* gt = a > b
      Assignment("le", Comparison("LessOrEqual", VarA, VarB)),     \* le = a <= b
      Assignment("ge", Comparison("GreaterOrEqual", VarA, VarB))>> \* ge = a >= b

\* The state in which a and b have been bound as opa and opb say.
OperandsGiven(M, opa, opb) ==
    /\ source = <<>>
    /\ lexer = LexerCtor(<<>>)
    /\ tokens = Handed(lexer)
    /\ source2 = <<>>
    /\ lexer2 = LexerCtor(<<>>)
    /\ tokens2 = Handed(lexer2)
    /\ heap = Given(Given(M, "a", opa), "b", opb).heap
    /\ closure = Given(Given(M, "a", opa), "b", opb).scopes[1]
    /\ status = "ok"
    /\ executed = 0
    /\ log = <<>>
    /\ result = NoResult
    /\ output = <<>>
    /\ lookup = NoLookup

CompareInit == \E opa, opb \in CompareOperands : OperandsGiven(DefinedOverloads, opa, opb)

\* The top-level Compound executes its next statement, CompareProgram[i].
CompareStatement(i, oracle, order) ==
    /\ status = "ok"
    /\ "returned_value" \notin DOMAIN closure
    /\ executed < MaxCompares
    /\ Commit(CompoundStep([Machine(oracle) EXCEPT !.order = order], CompareProgram[i]))
    /\ executed' = executed + 1
    /\ UNCHANGED <<lexvars, lookup>>

CompareNext ==
    \E i \in 1..Len(CompareProgram), oracle \in UseAfterFree, order \in ArgumentOrder :
       CompareStatement(i, oracle, order)

SpecCompare == CompareInit /\ [][CompareNext]_vars

(***************************************************************************)
(* The fourth program: one expression over a and b, which have been given  *)
(* values of every kind; each run evaluates one of them.                   *)
(***************************************************************************)
Numbers == {-7, -1, 0, 2, IntMax, IntMin}

ArithOperands ==
    {NoneOperand, ClassOperand(ClassAAt)}
       \cup {Literal("Bool", n, <<>>) : n \in 0..1}
       \cup {Literal("Number", n, <<>>) : n \in Numbers}
       \cup {Literal("String", 0, str) : str \in {<<>>, <<"a">>, <<"a", "b">>}}
       \cup Instances

ArithProgram ==
    <<Assignment("r", Add(VarA, VarB)),                  \* r = a + b
      Assignment("r", Sub(VarA, VarB)),                  \* r = a - b
      Assignment("r", Mult(VarA, VarB)),                 \* r = a * b
      Assignment("r", Div(VarA, VarB)),                  \* r = a / b
      Assignment("r", Not(VarA)),                        \* r = not a
      Assignment("r", Not(Not(VarA))),                   \* r = not not a
      Assignment("r", Div(Add(VarA, VarB), VarB)),       \* r = (a + b) / b
      Assignment("r", Sub(VarA, Mult(VarB, VarB))),      \* r = a - b * b
      Assignment("r", Stringify(VarA)),                  \* r = str(a)
      PrintOf(<<VarA>>),                                 \* print a
      PrintOf(<<VarA, VarB>>),                           \* print a, b
      PrintOf(<<Stringify(VarA), VarA>>)>>               \* print str(a), a

ArithInit == \E opa, opb \in ArithOperands : OperandsGiven(DefinedOverloads, opa, opb)

\* The top-level Compound executes its statement, ArithProgram[i].
ArithStatement(i, oracle) ==
    /\ status = "ok"
    /\ "returned_value" \notin DOMAIN closure
    /\ executed = 0
    /\ Commit(CompoundStep(Machine(oracle), ArithProgram[i]))
    /\ executed' = executed + 1
    /\ UNCHANGED <<lexvars, lookup>>

ArithNext ==
    \E i \in 1..Len(ArithProgram), oracle \in UseAfterFree : ArithStatement(i, oracle)

SpecArith == ArithInit /\ [][ArithNext]_vars

(***************************************************************************)
(* The connectives.  One statement r = <left> or <right>, or r = <left>    *)
(* and <right>, over the operands of the arithmetic: the left operand      *)
(* reads a or the undefined u, the right one reads b or the undefined v.   *)
(***************************************************************************)
VarU == VariableValue(<<"u">>)

VarV == VariableValue(<<"v">>)

LeftOperands == <<VarA, Not(VarA), VarU>>

RightOperands == <<VarB, Not(VarB), VariableValue(<<"b", "n">>), VarV>>

LogicInit == \E opa, opb \in ArithOperands : OperandsGiven(DefinedOverloads, opa, opb)

\* The top-level Compound executes r = <left> or <right>.
OrStatement(i, j, oracle) ==
    /\ status = "ok"
    /\ "returned_value" \notin DOMAIN closure
    /\ executed = 0
    /\ Commit(CompoundStep(Machine(oracle),
                           Assignment("r", Or(LeftOperands[i], RightOperands[j]))))
    /\ executed' = executed + 1
    /\ UNCHANGED <<lexvars, lookup>>

\* The top-level Compound executes r = <left> and <right>.
AndStatement(i, j, oracle) ==
    /\ status = "ok"
    /\ "returned_value" \notin DOMAIN closure
    /\ executed = 0
    /\ Commit(CompoundStep(Machine(oracle),
                           Assignment("r", And(LeftOperands[i], RightOperands[j]))))
    /\ executed' = executed + 1
    /\ UNCHANGED <<lexvars, lookup>>

LogicNext ==
    \E i \in 1..Len(LeftOperands), j \in 1..Len(RightOperands), oracle \in UseAfterFree :
       \/ OrStatement(i, j, oracle)
       \/ AndStatement(i, j, oracle)

SpecLogic == LogicInit /\ [][LogicNext]_vars

(***************************************************************************)
(* Instantiation with arguments.  One statement r = C(args) for a class    *)
(* without __init__ (A), with an __init__ of no parameter (R), of one (P,  *)
(* and Q which inherits it) and of two (Lt); the arguments are up to two   *)
(* of the variables a, b and the undefined u.                              *)
(***************************************************************************)
NewClasses == {"A", "R", "P", "Q", "Lt"}

ArgumentLists ==
    {<<>>} \cup {<<x>> : x \in {VarA, VarB, VarU}}
           \cup {<<x, y>> : x, y \in {VarA, VarB, VarU}}

NewInit == \E opa, opb \in ArithOperands : OperandsGiven(DefinedOverloads, opa, opb)

\* The top-level Compound executes r = c(args).
NewStatement(c, args, oracle) ==
    /\ status = "ok"
    /\ "returned_value" \notin DOMAIN closure
    /\ executed = 0
    /\ Commit(CompoundStep(Machine(oracle), Assignment("r", NewInstance(c, args))))
    /\ executed' = executed + 1
    /\ UNCHANGED <<lexvars, lookup>>

NewNext ==
    \E c \in NewClasses, args \in ArgumentLists, oracle \in UseAfterFree :
       NewStatement(c, args, oracle)

SpecNew == NewInit /\ [][NewNext]_vars

(***************************************************************************)
(* Claims about method calls, scopes and holders.  log holds the events of *)
(* the last top-level statement: "stmt" when a Compound starts a           *)
(* statement, "seen" when it has tested the key after one (flag: the key   *)
(* is there), "return" when a Return has written the key (val: its         *)
(* value), "enter" when Call has bound the parameters (flag: the key is    *)
(* there), "exit" when Call returns (val: what it returns, flag: self is   *)
(* still the receiver; pre and post: the scopes and the heap before and    *)
(* after).  act is the activation the event belongs to, 0 the top level.   *)
(***************************************************************************)
Events == 1..Len(log)

ReturnsOf(act, k) == {i \in 1..k : log[i].e = "return" /\ log[i].act = act}

\* C1: in a method call, no statement of the body starts after a Return of
\* that activation has executed; and a call that leaves self alone
\* evaluates to the value of the Return that executed, or to None when no
\* Return executed.
C1_ReturnEndsCall ==
    /\ \A i, j \in Events :
          (i < j /\ log[i].e = "return" /\ log[i].act # 0
                 /\ log[j].e = "stmt" /\ log[j].act = log[i].act) => FALSE
    /\ \A k \in Events :
          (log[k].e = "exit" /\ log[k].flag) =>
             IF ReturnsOf(log[k].act, k) = {} THEN log[k].val = None
             ELSE \A i \in ReturnsOf(log[k].act, k) : log[k].val = log[i].val

\* C2: the key returned_value is in a scope exactly when a Return has
\* executed against that scope in the current method activation: never in
\* the top-level scope, and in a call scope, wherever it is looked at (when
\* the call has bound its parameters, after each statement of a Compound),
\* only after a Return of that activation.
C2_ReturnedValueKey ==
    /\ "returned_value" \notin DOMAIN closure
    /\ \A j \in Events :
          log[j].e \in {"enter", "seen"} =>
             (log[j].flag <=> (log[j].act # 0 /\ ReturnsOf(log[j].act, j) # {}))

\* The objects a call can get at: its receiver, its arguments, and what
\* their fields lead to.
RECURSIVE Reach(_, _)
Reach(hp, rs) ==
    LET next == rs \cup UNION {{hp[r].fields[f].ref : f \in DOMAIN hp[r].fields} :
                                  r \in rs \ {0}}
    IN IF next = rs THEN rs ELSE Reach(hp, next)

\* What a program can observe of an object.
Observable(o) ==
    [kind |-> o.kind, num |-> o.num, str |-> o.str, cls |-> o.cls,
     fields |-> o.fields, alive |-> o.alive]

\* C3: a method call leaves the scope of its caller (and of the caller's
\* callers) as it was: the same keys, each bound to the same object, so
\* that returned_value is in the caller's scope after the call only if it
\* was before; and every object the call could not reach from its receiver
\* or its arguments is as it was.
C3_ScopeIsolation ==
    \A k \in Events :
       log[k].e = "exit" =>
          LET pre == log[k].pre
              post == log[k].post
              caller == Len(pre.scopes)
          IN /\ post.scopes = pre.scopes
             /\ ("returned_value" \in DOMAIN post.scopes[caller])
                   <=> ("returned_value" \in DOMAIN pre.scopes[caller])
             /\ \A o \in 1..Len(pre.heap) :
                   o \notin Reach(pre.heap, pre.roots) =>
                      Observable(post.heap[o]) = Observable(pre.heap[o])

\* A call of setx has returned: its body assigned x and y, names the caller
\* has bound too, and executed a Return.
C3_Witness ==
    \E k \in Events :
       /\ log[k].e = "exit"
       /\ log[k].what = "setx"
       /\ {"x", "y"} \subseteq DOMAIN log[k].pre.scopes[1]
       /\ ReturnsOf(log[k].act, k) # {}
       /\ Len(log[k].post.heap) > Len(log[k].pre.heap)

Alive(hp, h) == h.ref = 0 \/ hp[h.ref].alive

\* C4: every non-empty holder in the top-level scope, in the fields of a
\* live instance, or returned by the evaluation of a statement refers to an
\* object that has not been destroyed.
C4_HoldersAlive ==
    /\ \A n \in DOMAIN closure : Alive(heap, closure[n])
    /\ \A o \in 1..Len(heap) :
          heap[o].alive => \A f \in DOMAIN heap[o].fields : Alive(heap, heap[o].fields[f])
    /\ result.live

(***************************************************************************)
(* Method lookup on its own.  A hierarchy is a chain of up to MaxDepth     *)
(* classes, each the parent of the next, each with up to MaxMethods        *)
(* methods; a method's body names the class that defines it, so that two   *)
(* definitions of one name can be told apart.  A client asks GetMethod and *)
(* HasMethod of a class of the chain, one question for each hierarchy.     *)
(***************************************************************************)
ChainNames == <<"K1", "K2", "K3", "K4">>

Signatures == {<<"f", <<>>>>, <<"f", <<"a">>>>, <<"g", <<>>>>}

SignatureLists == UNION {[1..n -> Signatures] : n \in 0..MaxMethods}

MethodOf(owner, sig) == Method(sig[1], sig[2], <<Return(VariableValue(<<owner>>))>>)

Hierarchy(d, lists) ==
    [k \in {ChainNames[i] : i \in 1..d} |->
        LET i == CHOOSE j \in 1..d : ChainNames[j] = k
        IN [name |-> k,
            parent |-> IF i = 1 THEN "" ELSE ChainNames[i - 1],
            methods |-> [j \in 1..Len(lists[i]) |-> MethodOf(k, lists[i][j])]]]

LookupInit ==
    /\ source = <<>>
    /\ lexer = LexerCtor(<<>>)
    /\ tokens = Handed(lexer)
    /\ source2 = <<>>
    /\ lexer2 = LexerCtor(<<>>)
    /\ tokens2 = Handed(lexer2)
    /\ heap = <<>>
    /\ closure = EmptyClosure
    /\ status = "ok"
    /\ executed = 0
    /\ log = <<>>
    /\ result = NoResult
    /\ output = <<>>
    /\ \E d \in 1..MaxDepth : \E lists \in [1..d -> SignatureLists] :
          lookup = [asked |-> FALSE, classes |-> Hierarchy(d, lists)]

\* GetMethod(name) on class c of the hierarchy, and HasMethod(name, argc)
\* on an instance of it.
AskMethod(c, name, argc) ==
    /\ ~lookup.asked
    /\ c \in DOMAIN lookup.classes
    /\ lookup' = [asked |-> TRUE, classes |-> lookup.classes,
                  cls |-> c, name |-> name, argc |-> argc,
                  method |-> GetMethodIn(lookup.classes, c, name),
                  has |-> HasMethodIn(lookup.classes, c, name, argc)]
    /\ UNCHANGED <<lexvars, heap, closure, status, executed, log, result, output>>

LookupNext ==
    \E i \in 1..MaxDepth, name \in {"f", "g"}, argc \in 0..1 :
       AskMethod(ChainNames[i], name, argc)

SpecLookup == LookupInit /\ [][LookupNext]_vars

\* The classes from c up to the root of the hierarchy, nearest first.
RECURSIVE AncestorPath(_, _)
AncestorPath(cs, c) ==
    <<c>> \o (IF cs[c].parent = "" THEN <<>> ELSE AncestorPath(cs, cs[c].parent))

\* The methods class k itself defines under the name.
DefinedBy(cs, k, name) ==
    {cs[k].methods[i] : i \in {j \in 1..Len(cs[k].methods) : cs[k].methods[j].name = name}}

\* The places on the path of the classes that define the name.
Definers(cs, path, name) == {i \in 1..Len(path) : DefinedBy(cs, path[i], name) # {}}

\* C11: GetMethod(name) returns a method the nearest class on the path from
\* the class up through its ancestors defines under that name, whatever the
\* classes further up define, and returns nothing exactly when no class on
\* the path defines the name.
C11_NearestDefinition ==
    lookup.asked =>
       LET cs == lookup.classes
           path == AncestorPath(cs, lookup.cls)
           at == Definers(cs, path, lookup.name)
       IN IF at = {} THEN lookup.method = NoMethod
          ELSE /\ lookup.method # NoMethod
               /\ lookup.method \in
                     DefinedBy(cs, path[CHOOSE i \in at : \A j \in at : i <= j], lookup.name)

\* A subclass and its parent both define f, with different parameters, and
\* the lookup on the subclass has given the subclass's f.
C11_Witness ==
    /\ lookup.asked
    /\ lookup.cls = "K2"
    /\ lookup.name = "f"
    /\ DefinedBy(lookup.classes, "K1", "f") # {}
    /\ DefinedBy(lookup.classes, "K2", "f") # {}
    /\ lookup.method \notin DefinedBy(lookup.classes, "K1", "f")

(***************************************************************************)
(* Claims about dispatch.  "call" is the event of Call being entered (val: *)
(* the receiver; pre: the scopes and the heap then; post: the receiver's   *)
(* class and the number of arguments), "body" the event of the method body *)
(* having returned (val: its value; pre: the receiver; post: what self is  *)
(* bound to in the call's scope).                                          *)
(***************************************************************************)
\* The nearest class on the path from c upwards that defines the name
\* exists, and defines it with argc parameters.
Dispatches(cs, c, name, argc) ==
    LET path == AncestorPath(cs, c)
        at == Definers(cs, path, name)
    IN /\ at # {}
       /\ \A d \in DefinedBy(cs, path[CHOOSE i \in at : \A j \in at : i <= j], name) :
             Len(d.formal_params) = argc

\* C12: Call(m, args) raises a runtime error, with the scopes and the heap
\* as they were when it was entered and no statement executed, exactly when
\* no class on the receiver's inheritance path defines m or the nearest
\* definition of m has a parameter count other than len(args), an ancestor's
\* definition with that count notwithstanding; otherwise it goes on to the
\* method body.  HasMethod(m, n) is true exactly in the second case.
C12_ArityIsPartOfDispatch ==
    /\ \A c \in DOMAIN Classes, n \in 0..2 :
          \A name \in {"m", "only", "nope", "__init__", "swap"} :
             HasMethod(c, name, n) <=> Dispatches(Classes, c, name, n)
    /\ \A k \in Events :
          log[k].e = "call" =>
             IF Dispatches(Classes, log[k].post.cls, log[k].what, log[k].post.argc)
             THEN /\ k < Len(log)
                  /\ log[k + 1].e = "enter"
                  /\ log[k + 1].what = log[k].what
             ELSE /\ status = "runtime_error"
                  /\ k = Len(log)
                  /\ heap = log[k].pre.heap
                  /\ closure = log[k].pre.scopes[1]

\* m() has been called on an instance of Q, whose own m takes one argument
\* while P's takes none: the call raised.
C12_Witness ==
    /\ status = "runtime_error"
    /\ \E k \in Events :
          /\ log[k].e = "call"
          /\ log[k].what = "m"
          /\ log[k].post = [cls |-> "Q", argc |-> 0]
          /\ HasMethod("P", "m", 0)

\* Some holder of the scopes or of the fields of a snapshot refers to r.
RefersTo(snap, r) ==
    \/ \E i \in 1..Len(snap.scopes) : \E n \in DOMAIN snap.scopes[i] :
          snap.scopes[i][n].ref = r
    \/ \E o \in 1..Len(snap.heap) : \E f \in DOMAIN snap.heap[o].fields :
          snap.heap[o].fields[f].ref = r

\* The calls of __init__ on the instance at r, and the ends of the
\* NewInstance that made it.
InitCalls(r) ==
    {c \in Events : log[c].e = "call" /\ log[c].what = "__init__" /\ log[c].val.ref = r}

MadeEvents(r) == {j \in Events : log[j].e = "made" /\ log[j].pre.ref = r}

\* What the call entered at event c returned: the value of the "exit" of
\* the activation that "enter"ed right after c.
ReturnedBy(c) ==
    {log[x].val : x \in {y \in Events : /\ y > c
                                        /\ log[y].e = "exit"
                                        /\ log[y].act = log[c + 1].act}}

BodyOf(x) == {b \in 1..x : log[b].e = "body" /\ log[b].act = log[x].act}

\* C14: when the body of a method has finished, Call returns what self is
\* bound to in the call's scope if that is another object than the receiver
\* or is None, and the body's value if self still refers to the receiver.
C14_SelfRebinding ==
    \A x \in Events :
       log[x].e = "exit" =>
          /\ BodyOf(x) # {}
          /\ \A b \in BodyOf(x) :
                log[x].val = IF log[b].post.ref # log[b].pre.ref THEN log[b].post
                             ELSE log[b].val

\* A call has returned whose body rebound self to another object and
\* returned something else: the call gave the object self was bound to.
C14_Witness ==
    \E x \in Events :
       /\ log[x].e = "exit"
       /\ \E b \in BodyOf(x) :
             /\ log[b].post.ref \notin {0, log[b].pre.ref}
             /\ log[b].val # log[b].post
             /\ log[x].val = log[b].post

(***************************************************************************)
(* Claims about comparisons.  "compare" is the event of a Comparison node  *)
(* having evaluated its operands (what: the comparator; pre: the two       *)
(* holders), "compared" of its having made the Bool (val: the Bool's       *)
(* holder; flag: its value).                                               *)
(***************************************************************************)
KindOf(h) == IF h.ref = 0 THEN "None" ELSE heap[h.ref].kind

\* h holds an instance whose class dispatches the method with one parameter.
Overloads(h, method) ==
    KindOf(h) = "Instance" /\ Dispatches(Classes, heap[h.ref].cls, method, 1)

\* The "compared" events that end the Comparison begun at event k.
ComparedAfter(k) ==
    {j \in Events : j > k /\ log[j].e = "compared" /\ log[j].act = log[k].act}

PrimMethod(prim) == IF prim = "Equal" THEN "__eq__" ELSE "__lt__"

\* C15: on two None operands == is true and != is false, while <, >, <=
\* and >= each raise a runtime error and make no value; and Equal and Less
\* on operands of different kinds (exactly one None among them) raise at
\* once, returning nothing, unless the left operand is an instance whose
\* class gives the one-parameter overload.
C15_ComparisonErrors ==
    /\ \A k \in Events :
          (log[k].e = "compare" /\ log[k].pre[1].ref = 0 /\ log[k].pre[2].ref = 0) =>
             IF log[k].what \in {"Equal", "NotEqual"}
             THEN /\ ComparedAfter(k) # {}
                  /\ \A j \in ComparedAfter(k) : log[j].flag = (log[k].what = "Equal")
             ELSE /\ status = "runtime_error"
                  /\ ComparedAfter(k) = {}
    /\ \A k \in Events :
          (/\ log[k].e = "primcall"
           /\ KindOf(log[k].pre[1]) # KindOf(log[k].pre[2])
           /\ ~Overloads(log[k].pre[1], PrimMethod(log[k].what))) =>
             /\ status = "runtime_error"
             /\ k = Len(log)

\* a >= b has been evaluated with a and b both None, and has raised.
C15_Witness ==
    /\ status = "runtime_error"
    /\ \E k \in Events :
          /\ log[k].e = "compare"
          /\ log[k].what = "GreaterOrEqual"
          /\ log[k].pre[1].ref = 0
          /\ log[k].pre[2].ref = 0

\* The entries into and the returns from the primitive prim (Equal or
\* Less) that the Comparison begun at event k made itself.
PrimCalls(k, prim) ==
    {j \in Events : /\ j > k
                    /\ log[j].e = "primcall"
                    /\ log[j].what = prim
                    /\ log[j].act = log[k].act}

PrimReturns(k, prim) ==
    {j \in Events : /\ j > k
                    /\ log[j].e = "prim"
                    /\ log[j].what = prim
                    /\ log[j].act = log[k].act}

\* What the primitive returned, FALSE when it did not return.
PrimValue(k, prim) == \E j \in PrimReturns(k, prim) : log[j].flag

\* The primitives each relation is made of, and how.
PrimitivesOf(cmp) ==
    CASE cmp \in {"Equal", "NotEqual"} -> {"Equal"}
      [] cmp \in {"Less", "GreaterOrEqual"} -> {"Less"}
      [] cmp \in {"Greater", "LessOrEqual"} -> {"Equal", "Less"}

Derived(cmp, eq, lt) ==
    CASE cmp = "Equal" -> eq
      [] cmp = "NotEqual" -> ~eq
      [] cmp = "Less" -> lt
      [] cmp = "Greater" -> ~lt /\ ~eq
      [] cmp = "LessOrEqual" -> ~(~lt /\ ~eq)
      [] cmp = "GreaterOrEqual" -> ~lt

\* C16: != is the negation of the Equal it computes, >= of the Less it
\* computes; > computes Equal and then Less, both whatever the first gave,
\* and is true exactly when both are false; <= is the negation of that.  A
\* primitive that raises leaves the relation without a value: the error
\* comes out of it, also out of > and <= when the other primitive alone
\* would decide.
C16_DerivedRelations ==
    \A k \in Events :
       log[k].e = "compare" =>
          LET cmp == log[k].what IN
          /\ \A prim \in {"Equal", "Less"} :
                /\ Cardinality(PrimCalls(k, prim)) <= 1
                /\ prim \notin PrimitivesOf(cmp) => PrimCalls(k, prim) = {}
          /\ "Equal" \in PrimitivesOf(cmp) => PrimCalls(k, "Equal") # {}
          /\ PrimitivesOf(cmp) = {"Less"} => PrimCalls(k, "Less") # {}
          /\ (PrimitivesOf(cmp) = {"Equal", "Less"} /\ PrimReturns(k, "Equal") # {}) =>
                /\ PrimCalls(k, "Less") # {}
                /\ \A i \in PrimReturns(k, "Equal"), j \in PrimCalls(k, "Less") : i < j
          /\ IF \A prim \in PrimitivesOf(cmp) : PrimReturns(k, prim) # {}
             THEN /\ ComparedAfter(k) # {}
                  /\ \A j \in ComparedAfter(k) :
                        log[j].flag = Derived(cmp, PrimValue(k, "Equal"), PrimValue(k, "Less"))
             ELSE /\ ComparedAfter(k) = {}
                  /\ status # "ok"

\* a > b or a <= b has been evaluated with a an instance of Eq, which has
\* __eq__ but no __lt__ of one parameter: Equal returned true, which alone
\* decides both relations, Less was still called, and its error ended the
\* evaluation.
C16_Witness ==
    /\ status = "runtime_error"
    /\ \E k \in Events :
          /\ log[k].e = "compare"
          /\ log[k].what \in {"Greater", "LessOrEqual"}
          /\ KindOf(log[k].pre[1]) = "Instance"
          /\ PrimValue(k, "Equal")
          /\ PrimCalls(k, "Less") # {}
          /\ PrimReturns(k, "Less") = {}

\* The relations the program has computed of a and b so far: the names it
\* assigned their results to, and the value of the Bool under a name.
Computed(names) == names \subseteq DOMAIN closure

IsSet(name) == heap[closure[name].ref].num = 1

\* How many of the relations under the names answered true.
TrueAmong(names) == Cardinality({n \in names : IsSet(n)})

\* C17: for two operands whose comparisons do not raise, instances with
\* overloads among them, exactly one of a == b and a != b is true, and
\* exactly one of a < b, a == b and a > b is true.
C17_ComparisonDuality ==
    /\ Computed({"eq", "ne"}) => TrueAmong({"eq", "ne"}) = 1
    /\ Computed({"lt", "eq", "gt"}) => TrueAmong({"lt", "eq", "gt"}) = 1

\* C17, amended: for two operands whose comparisons do not raise, with
\* overloads that have no side effects, exactly one of a == b and a != b is
\* true, and a > b is true exactly when neither a < b nor a == b is, so that
\* at least one of the three is true and a > b excludes the other two;
\* a < b and a == b exclude each other when a is a Bool, an Integer or a
\* String, while for an instance both are whatever its overloads answer.
C17_DualityAmended ==
    /\ Computed({"eq", "ne"}) => TrueAmong({"eq", "ne"}) = 1
    /\ Computed({"lt", "eq", "gt"}) =>
          /\ IsSet("gt") <=> (~IsSet("lt") /\ ~IsSet("eq"))
          /\ TrueAmong({"lt", "eq", "gt"}) >= 1
    /\ (Computed({"lt", "eq"}) /\ KindOf(closure["a"]) \in {"Bool", "Number", "String"}) =>
          ~(IsSet("lt") /\ IsSet("eq"))

\* a is an instance whose __eq__ and __lt__ both answered true of b, and
\* a > b has been computed as well.
C17_Witness ==
    /\ Computed({"lt", "eq", "gt"})
    /\ KindOf(closure["a"]) = "Instance"
    /\ IsSet("lt")
    /\ IsSet("eq")
    /\ ~IsSet("gt")

(***************************************************************************)
(* Truthiness and arithmetic.  "istrue" is a call of IsTrue (val: the      *)
(* holder) and "truth" its return (flag: what it returned); "operate" is   *)
(* an operation that has its operands (pre) and "operated" one that has    *)
(* made its result (val).                                                  *)
(***************************************************************************)
KindAt(h) == IF h.ref = 0 THEN "None" ELSE heap[h.ref].kind

\* The truth value the table gives the value of holder h.
Truthy(h) ==
    CASE KindAt(h) = "None" -> FALSE
      [] KindAt(h) = "Bool" -> heap[h.ref].num = 1
      [] KindAt(h) = "Number" -> heap[h.ref].num # 0
      [] KindAt(h) = "String" -> Len(heap[h.ref].str) > 0
      [] KindAt(h) \in {"Class", "Instance"} -> FALSE

\* The operation `what` made its result at event j from the operands args.
OperationMade(j, what, args) ==
    /\ log[j].e = "operated"
    /\ log[j].what = what
    /\ log[j].pre = args

IsBool(h, t) ==
    /\ h.ref # 0
    /\ heap[h.ref].kind = "Bool"
    /\ heap[h.ref].num = IF t THEN 1 ELSE 0

\* C18: every call of IsTrue returns, without an error, the truth value of
\* the table (None false, Bool(x) x, Integer(n) n # 0, String(s) s
\* non-empty, classes and instances false), and a Not applied to the result
\* of a Not on x yields Bool(IsTrue(x)).
C18_Truthiness ==
    /\ \A k \in Events :
          log[k].e = "istrue" =>
             /\ k < Len(log)
             /\ log[k + 1].e = "truth"
             /\ log[k + 1].val = log[k].val
             /\ log[k + 1].flag = Truthy(log[k].val)
             /\ status = "ok"
    /\ \A i, j \in Events :
          /\ i < j
          /\ log[i].e = "operated" /\ log[i].what = "Not"
          /\ OperationMade(j, "Not", <<log[i].val>>)
          => IsBool(log[j].val, IsTrue(heap, log[i].pre[1]))

\* not not a has been evaluated for a negative number a, and has made
\* Bool(true).
C18_Witness ==
    \E i, j \in Events :
       /\ i < j
       /\ log[i].e = "operated" /\ log[i].what = "Not"
       /\ OperationMade(j, "Not", <<log[i].val>>)
       /\ IsBool(log[j].val, TRUE)
       /\ KindAt(log[i].pre[1]) = "Number"
       /\ heap[log[i].pre[1].ref].num < 0

\* The events at which the operation `what` had its operands.
Operations(what) == {k \in Events : log[k].e = "operate" /\ log[k].what = what}

\* The results the operation of event k made.
ResultsOf(k) ==
    {log[j].val : j \in {i \in Events : i > k /\ OperationMade(i, log[k].what, log[k].pre)}}

NumAt(h) == heap[h.ref].num

\* n is the sum of a and b.
IsSum(n, a, b) == ~AddOverflows(a, b) /\ n = a + b

\* The operation of event k raised a runtime error, and did nothing else.
Raised(k) == status = "runtime_error" /\ k = Len(log) /\ ResultsOf(k) = {}

\* The Add of event k called __add__ on its left operand with its right
\* operand, and made what the call returned.
AddIsCall(k) ==
    /\ k < Len(log)
    /\ log[k + 1].e = "call"
    /\ log[k + 1].what = "__add__"
    /\ log[k + 1].val.ref = log[k].pre[1].ref
    /\ log[k + 1].post.argc = 1
    /\ ResultsOf(k) = ReturnedBy(k + 1)

\* C19: Add yields the integer sum of two Integers, the concatenation, left
\* then right, of two Strings, and what left.__add__(right) returns when
\* left is an instance whose class chain defines __add__ with one parameter;
\* in every other case it raises a runtime error.
C19_Addition ==
    \A k \in Operations("Add") :
       LET l == log[k].pre[1]
           r == log[k].pre[2]
       IN CASE KindAt(l) = "Number" /\ KindAt(r) = "Number" ->
                 /\ ResultsOf(k) # {}
                 /\ \A h \in ResultsOf(k) :
                       /\ h.ref # 0
                       /\ heap[h.ref].kind = "Number"
                       /\ IsSum(NumAt(h), NumAt(l), NumAt(r))
            [] KindAt(l) = "String" /\ KindAt(r) = "String" ->
                 /\ ResultsOf(k) # {}
                 /\ \A h \in ResultsOf(k) :
                       /\ h.ref # 0
                       /\ heap[h.ref].kind = "String"
                       /\ heap[h.ref].str = heap[l.ref].str \o heap[r.ref].str
            [] /\ KindAt(l) = "Instance"
               /\ Dispatches(Classes, heap[l.ref].cls, "__add__", 1) -> AddIsCall(k)
            [] OTHER -> Raised(k)

\* q is the quotient of a by b, truncated toward zero.
IsQuotient(q, a, b) == ~(a = IntMin /\ b = -1) /\ q = TruncDiv(a, b)

\* C20: for Integer operands a and b with b # 0, Div yields the quotient
\* truncated toward zero; Div with b = 0 raises a runtime error and yields
\* no value; Sub, Mult and Div with an operand that is not an Integer raise
\* a runtime error.
C20_Division ==
    /\ \A k \in Operations("Div") :
          LET l == log[k].pre[1]
              r == log[k].pre[2]
          IN KindAt(l) = "Number" /\ KindAt(r) = "Number" =>
                IF NumAt(r) # 0
                THEN /\ ResultsOf(k) # {}
                     /\ \A h \in ResultsOf(k) :
                           /\ h.ref # 0
                           /\ heap[h.ref].kind = "Number"
                           /\ IsQuotient(NumAt(h), NumAt(l), NumAt(r))
                ELSE Raised(k)
    /\ \A k \in Operations("Sub") \cup Operations("Mult") \cup Operations("Div") :
          KindAt(log[k].pre[1]) # "Number" \/ KindAt(log[k].pre[2]) # "Number"
             => Raised(k)

\* The top-level events e of the last statement, in order.
TopEvents(e) == {k \in 1..Len(log) : log[k].e = e /\ log[k].act = 0}

\* The texts joined by single spaces.
RECURSIVE Joined(_)
Joined(texts) ==
    IF texts = <<>> THEN <<>>
    ELSE IF Len(texts) = 1 THEN texts[1]
    ELSE texts[1] \o <<" ">> \o Joined(Tail(texts))

\* What the print statement wrote for each of its arguments.
PrintedTexts ==
    LET evs == SelectSeq(log, LAMBDA ev : ev.e = "printed" /\ ev.act = 0)
    IN [k \in 1..Len(evs) |-> evs[k].post]

\* str(v) gave the text of event i, and print began to write that v at j.
StrThenPrint(i, j) ==
    /\ i \in TopEvents("operated")
    /\ log[i].what = "Stringify"
    /\ j \in TopEvents("print")
    /\ i < j
    /\ log[j].val = log[i].pre[1]

\* C21: print and str agree.  When str(v) has evaluated to a text and
\* print then writes the same v, it writes exactly that text; an empty
\* holder is written as None; and a print statement that has ended wrote
\* the texts of its arguments joined by single spaces, then one newline.
C21_PrintAgreesWithStr ==
    /\ \A i, j \in 1..Len(log) :
          StrThenPrint(i, j) =>
             \E k \in TopEvents("printed") :
                k > j /\ log[k].val = log[j].val /\ log[k].post = log[i].post
    /\ \A k \in TopEvents("printed") :
          log[k].val.ref = 0 => log[k].post = <<"N", "o", "n", "e">>
    /\ \A k \in TopEvents("seen") :
          log[k].what = "Print" => output = Joined(PrintedTexts) \o <<"\n">>

\* The objects the fields_ of the instance at r own.
FieldOwned(r) ==
    {heap[r].fields[k].ref : k \in {n \in DOMAIN heap[r].fields :
                                       heap[r].fields[n].own /\ heap[r].fields[n].ref # 0}}

\* The objects owned through the fields of the objects rs, in up to n steps.
RECURSIVE OwnedWithin(_, _)
OwnedWithin(rs, n) ==
    IF n = 0 THEN {}
    ELSE LET next == UNION {FieldOwned(r) : r \in rs}
         IN next \cup OwnedWithin(next, n - 1)

\* C22: the owning holders make no cycle: no object is owned, directly or
\* through other instances, by a field of its own field map.
C22_NoOwnershipCycles ==
    \A r \in 1..Len(heap) : r \notin OwnedWithin({r}, Len(heap))

\* The events at which the Comparison or the arithmetic node begun at event
\* k made its result.
EndsOf(k) ==
    {j \in Events :
        /\ j > k
        /\ log[j].act = log[k].act
        /\ log[j].what = log[k].what
        /\ log[j].pre = log[k].pre
        /\ log[j].e = (IF log[k].e = "compare" THEN "compared" ELSE "operated")}

\* The object of holder h, if it still lives in the heap after, has the
\* value and the field map it had in the heap before.
SameObject(h, before, after) ==
    h.ref # 0 /\ after[h.ref].alive =>
       /\ after[h.ref].num = before[h.ref].num
       /\ after[h.ref].str = before[h.ref].str
       /\ after[h.ref].fields = before[h.ref].fields

\* C23: a Comparison, Add, Sub, Mult or Div node that has made its result
\* left each of its operands with the value and the field map it had when
\* the operation began.
C23_OperandsUnchanged ==
    \A k \in Events :
       log[k].e \in {"compare", "operate"} =>
          \A j \in EndsOf(k), i \in 1..2 :
             SameObject(log[k].pre[i], log[k].post, log[j].post)

\* The digits without the leading zeros, the last digit kept.
RECURSIVE Canonical(_)
Canonical(digits) ==
    IF Len(digits) > 1 /\ Head(digits) = "0" THEN Canonical(Tail(digits)) ELSE digits

\* a <= b for two runs of digits of the same length.
RECURSIVE DigitsLeq(_, _)
DigitsLeq(a, b) ==
    \/ a = <<>>
    \/ DigitVal(Head(a)) < DigitVal(Head(b))
    \/ Head(a) = Head(b) /\ DigitsLeq(Tail(a), Tail(b))

\* 2^63 - 1.
Int64Max ==
    <<"9", "2", "2", "3", "3", "7", "2", "0", "3", "6",
      "8", "5", "4", "7", "7", "5", "8", "0", "7">>

\* The run of digits denotes an integer of 0 .. 2^63 - 1.
FitsInt64(digits) ==
    \/ Len(Canonical(digits)) < Len(Int64Max)
    \/ Len(Canonical(digits)) = Len(Int64Max) /\ DigitsLeq(Canonical(digits), Int64Max)

\* C24: a source that begins with a run of digits denoting an integer of
\* 0 .. 2^63 - 1 is lexed, and its first token is the Number of that
\* integer: the token's value written in decimal is the run without its
\* leading zeros.
C24_IntegerLiterals ==
    LET number == TakeWhile(source, Digits)
    IN number # <<>> /\ FitsInt64(number) =>
          /\ lexer.status = "ok"
          /\ tokens[1].type = "Number"
          /\ DecimalOf(tokens[1].num) = Canonical(number)

(***************************************************************************)
(* Claims about variable access.  "read" is the event of a VariableValue   *)
(* that begins (pre: its identifiers; post: the scopes and the heap it     *)
(* finds), "value" of its having returned (val: the holder).               *)
(***************************************************************************)
\* The field id of the instance at r in the heap hp; None when the field
\* map has no such key.
FieldOf(hp, r, id) ==
    IF id \in DOMAIN hp[r].fields THEN hp[r].fields[id] ELSE None

\* Walking the field maps of hp from the holder h along ids[i], ids[i+1],
\* ...: "stuck" when a value before the last identifier is no instance,
\* "dead" when it is a destroyed object, else the holder reached.
RECURSIVE Walk(_, _, _, _)
Walk(hp, h, ids, i) ==
    IF i > Len(ids) THEN [end |-> "value", val |-> h]
    ELSE IF h.ref # 0 /\ ~hp[h.ref].alive THEN [end |-> "dead", val |-> None]
    ELSE IF h.ref = 0 \/ hp[h.ref].kind # "Instance" THEN [end |-> "stuck", val |-> None]
    ELSE Walk(hp, FieldOf(hp, h.ref, ids[i]), ids, i + 1)

\* The read of event k raised a runtime error: nothing followed it.
ReadRaised(k) == status = "runtime_error" /\ k = Len(log)

\* The read of event k returned the holder h.
ReadGave(k, h) ==
    /\ k < Len(log)
    /\ log[k + 1].e = "value"
    /\ log[k + 1].act = log[k].act
    /\ log[k + 1].pre = log[k].pre
    /\ log[k + 1].val = h

\* C25: a VariableValue raises a runtime error when its first identifier is
\* not a key of the scope it is evaluated in, whatever the scopes below
\* hold, and when a value reached before the last identifier is not an
\* instance; otherwise it evaluates to the holder reached by walking the
\* field maps in order (a field the map lacks reads as None).  A walk that
\* meets a destroyed object is left aside.
C25_AccessChains ==
    \A k \in Events :
       log[k].e = "read" =>
          LET ids == log[k].pre
              scope == log[k].post.scopes[Len(log[k].post.scopes)]
          IN IF ids[1] \notin DOMAIN scope THEN ReadRaised(k)
             ELSE CASE Walk(log[k].post.heap, scope[ids[1]], ids, 2).end = "stuck" ->
                          ReadRaised(k)
                    [] Walk(log[k].post.heap, scope[ids[1]], ids, 2).end = "value" ->
                          ReadGave(k, Walk(log[k].post.heap, scope[ids[1]], ids, 2).val)
                    [] OTHER -> TRUE

\* A chain of three identifiers has been walked through two live instances
\* and has returned the holder of an object.
C25_Witness ==
    /\ \E k \in Events :
          /\ log[k].e = "read"
          /\ Len(log[k].pre) = 3
          /\ k < Len(log)
          /\ log[k + 1].e = "value"
          /\ log[k + 1].val.ref # 0
    /\ result.live

\* The objects of the heap before have, in the heap now, the field maps
\* they had.
SameFieldMaps(before) ==
    \A r \in 1..Len(before) : heap[r].fields = before[r].fields

\* C26: a FieldAssignment whose object, or a MethodCall whose receiver,
\* evaluates to a live value that is not an instance ends in a runtime
\* error and in no other failure, with the top-level scope and every field
\* map as they were when the receiver had been evaluated.
C26_IllTypedReceivers ==
    \A k \in Events :
       (/\ log[k].e = "receiver"
        /\ ~Dangling(log[k].post.heap, log[k].val)
        /\ ~IsInstance(log[k].post.heap, log[k].val)) =>
          /\ status = "runtime_error"
          /\ closure = log[k].post.scopes[1]
          /\ SameFieldMaps(log[k].post.heap)

\* A content line of src begins with an odd number of spaces.
HasOddLine(src) ==
    \E i \in 1..Len(SplitLines(src)) :
       IsContentLine(SplitLines(src)[i]) /\ CountSpaces(SplitLines(src)[i]) % 2 = 1

\* C27: a source with a content line whose leading spaces are odd in number
\* is rejected with a LexerError: the lexer never gets to hand out Eof for
\* it.
C27_OddIndentRejected ==
    HasOddLine(source) => NumEof(tokens) = 0

\* The holder h is, in the heap hp, that of a live Number.
LiveNumber(hp, h) == h.ref # 0 /\ hp[h.ref].alive /\ hp[h.ref].kind = "Number"

\* The arithmetic operations of the last statement on two live Integers,
\* the divisor of a Div not 0.
IntegerOperations ==
    {k \in Operations("Add") \cup Operations("Sub")
             \cup Operations("Mult") \cup Operations("Div") :
        /\ LiveNumber(log[k].post, log[k].pre[1])
        /\ LiveNumber(log[k].post, log[k].pre[2])
        /\ log[k].what = "Div" => log[k].post[log[k].pre[2].ref].num # 0}

\* C28: +, -, * and / on two Integers (the divisor not 0) make an Integer,
\* and no int expression is evaluated whose result does not fit: nothing
\* in the arithmetic is undefined.
C28_ArithmeticClosure ==
    /\ \A k \in Events : log[k].e # "overflow"
    /\ \A k \in IntegerOperations :
          /\ ResultsOf(k) # {}
          /\ \A h \in ResultsOf(k) : h.ref # 0 /\ heap[h.ref].kind = "Number"

\* Lexing has ended: Eof has been handed out, or a LexerError raised.
LexingEnded == NumEof(tokens) > 0 \/ lexer.status = "LexerError"

\* C29: whatever the source, also one that ends inside a string literal or
\* right after a backslash in one, the constructor and every NextToken
\* return a token or raise LexerError, and the calls of a client that goes
\* on calling reach Eof or an error.
C29_LexerTerminates == <>LexingEnded

\* The operands whose value the Sub, Mult or Div of event k reads: none
\* when a pointer is null, the divisor alone when it is 0.
ValuesRead(k) ==
    IF log[k].pre[1].ref = 0 \/ log[k].pre[2].ref = 0 THEN {}
    ELSE IF log[k].what = "Div" /\ log[k].post[log[k].pre[2].ref].num = 0
         THEN {log[k].pre[2]}
    ELSE {log[k].pre[1], log[k].pre[2]}

\* C30: when Sub, Mult or Div reads the value of an operand, the operand
\* object is alive, also when it is a value made for the occasion, which
\* no variable owns.
C30_OperandsAlive ==
    \A k \in Operations("Sub") \cup Operations("Mult") \cup Operations("Div") :
       \A h \in ValuesRead(k) : log[k].post[h.ref].alive

\* The objects alive in the heap before and in the heap after have the
\* same field maps in both.
FieldMapsKept(before, after) ==
    \A r \in 1..Len(before) :
       (before[r].alive /\ after[r].alive) => after[r].fields = before[r].fields

\* C31: evaluating a VariableValue changes no scope and no field map of an
\* instance; reading a field that was never assigned does not add it.
C31_ReadsArePure ==
    \A k \in Events :
       (log[k].e = "read" /\ k < Len(log) /\ log[k + 1].e = "value") =>
          /\ log[k + 1].post.scopes = log[k].post.scopes
          /\ FieldMapsKept(log[k].post.heap, log[k + 1].post.heap)

\* C32: the assertion of ObjectHolder::AssertIsValid holds at every
\* operator-> that evaluating a program reaches: no empty holder is
\* dereferenced, also not by str or print of an instance whose __str__
\* returns None or a value that is not a String.
C32_NoEmptyHolderDereferenced ==
    \A k \in Events : log[k].e = "deref" => log[k].flag

\* The events at which an Or or an And was entered.
Connectives == {k \in Events : log[k].e = "operate" /\ log[k].what \in {"Or", "And"}}

\* The reads, after event k, of a variable among names.
ReadsAfter(k, names) ==
    {i \in Events : i > k /\ log[i].e = "read" /\ log[i].pre[1] \in names}

\* The answers of IsTrue at the events from..to.
Truths(from, to) == {i \in from..to : i \in Events /\ log[i].e = "truth"}

\* The answer of the last IsTrue of a non-empty set of answers.
LastTruth(ts) == log[CHOOSE i \in ts : \A j \in ts : j <= i].flag

\* The event, after k, at which the right operand begins; past the log
\* when it never does.
RightBegins(k) ==
    IF ReadsAfter(k, {"b", "v"}) = {} THEN Len(log) + 1
    ELSE CHOOSE i \in ReadsAfter(k, {"b", "v"}) : \A j \in ReadsAfter(k, {"b", "v"}) : i <= j

\* The results the connective of event k returned.
ConnectiveResults(k) ==
    {log[j].val : j \in {i \in Events : /\ i > k
                                        /\ log[i].e = "operated"
                                        /\ log[i].what = log[k].what}}

\* The connective of event k, whose left operand is l, needs its right one.
NeedsRight(k, l) == IF log[k].what = "Or" THEN ~l ELSE l

\* What the connective of event k makes of the truth values l and r.
ConnectiveOf(k, l, r) == IF log[k].what = "Or" THEN l \/ r ELSE l /\ r

\* The holders the operands of the connective of event k evaluated to.
OperandValues(k) == {log[i].val : i \in {j \in Events : j > k /\ log[j].e = "istrue"}}

\* C33: Or and And evaluate the left operand first and once; the right
\* operand is evaluated, once, only when the left one is falsy (Or) or
\* truthy (And), and otherwise none of its effects or errors occur; the
\* result is a new Bool holding IsTrue(left) or IsTrue(right), respectively
\* IsTrue(left) and IsTrue(right), and never an operand's value.
C33_ShortCircuit ==
    \A k \in Connectives :
       /\ k < Len(log)
       /\ log[k + 1].e = "read"
       /\ log[k + 1].pre[1] \in {"a", "u"}
       /\ Cardinality(ReadsAfter(k, {"a", "u"})) = 1
       /\ Cardinality(ReadsAfter(k, {"b", "v"})) <= 1
       /\ \A h \in ConnectiveResults(k) : h \notin OperandValues(k)
       /\ IF Truths(k, RightBegins(k) - 1) = {}
          THEN /\ ReadsAfter(k, {"b", "v"}) = {}
               /\ ConnectiveResults(k) = {}
               /\ status # "ok"
          ELSE /\ ReadsAfter(k, {"b", "v"}) # {}
                     <=> NeedsRight(k, LastTruth(Truths(k, RightBegins(k) - 1)))
               /\ ReadsAfter(k, {"b", "v"}) = {} =>
                     /\ status = "ok"
                     /\ FieldMapsKept(log[k].post, heap)
                     /\ ConnectiveResults(k) # {}
                     /\ \A h \in ConnectiveResults(k) :
                           IsBool(h, LastTruth(Truths(k, RightBegins(k) - 1)))
               /\ Truths(RightBegins(k), Len(log)) # {} =>
                     /\ ConnectiveResults(k) # {}
                     /\ \A h \in ConnectiveResults(k) :
                           IsBool(h, ConnectiveOf(k, LastTruth(Truths(k, RightBegins(k) - 1)),
                                                  LastTruth(Truths(RightBegins(k), Len(log)))))

\* An Or whose left operand is truthy has returned Bool(true) without a
\* read of its right operand, b being an instance that has no field.
C33_Witness ==
    \E k \in Connectives :
       /\ log[k].what = "Or"
       /\ "b" \in DOMAIN closure
       /\ closure["b"].ref # 0
       /\ heap[closure["b"].ref].kind = "Instance"
       /\ heap[closure["b"].ref].fields = << >>
       /\ ReadsAfter(k, {"b", "v"}) = {}
       /\ \E h \in ConnectiveResults(k) : IsBool(h, TRUE)
       /\ status = "ok"

\* The reads of variables the NewInstance of event k made for its
\* arguments: those of its own activation.
ArgumentReads(k) ==
    {i \in Events : i > k /\ log[i].e = "read" /\ log[i].act = log[k].act}

\* The values those reads gave: a read that raises gives none.
ArgumentValues(k) ==
    {i \in Events : i > k /\ log[i].e = "value" /\ log[i].act = log[k].act}

\* The reads of s up to the read i, counted.
RankIn(s, i) == Cardinality({j \in s : j <= i})

\* C34: a NewInstance evaluates its arguments exactly when the class's
\* __init__ takes as many parameters as there are arguments: then each is
\* evaluated once, left to right, in the caller's scope, up to the first
\* that raises, and __init__ is called after the last; when the class has no
\* __init__ or one of another arity, no argument is evaluated, nothing is
\* raised and __init__ is not called.
C34_ArgumentsOfNew ==
    \A k \in Events :
       log[k].e = "new" =>
          LET args == log[k].post.args
              reads == ArgumentReads(k)
              this == log[k].val.ref
          IN IF Dispatches(Classes, log[k].what, "__init__", Len(args))
             THEN /\ Cardinality(reads) <= Len(args)
                  /\ \A i \in reads :
                        /\ log[i].pre = args[RankIn(reads, i)].ids
                        /\ log[i].post.scopes = log[k].pre.scopes
                        /\ \A c \in InitCalls(this) : i < c
                  /\ Cardinality(ArgumentValues(k)) = Len(args) <=> InitCalls(this) # {}
                  /\ Cardinality(ArgumentValues(k)) < Len(args) =>
                        /\ status = "runtime_error"
                        /\ Cardinality(reads) = Cardinality(ArgumentValues(k)) + 1
                  /\ Cardinality(InitCalls(this)) <= 1
             ELSE /\ reads = {}
                  /\ InitCalls(this) = {}
                  /\ status = "ok"

\* Lt(b, a) has read b, then a, has called __init__ with the two values
\* and has ended without error.
C34_Witness ==
    \E k \in Events :
       /\ log[k].e = "new"
       /\ log[k].what = "Lt"
       /\ log[k].post.args = <<VarB, VarA>>
       /\ Cardinality(ArgumentValues(k)) = 2
       /\ InitCalls(log[k].val.ref) # {}
       /\ status = "ok"

\* C35: every Newline the lexer hands out comes right after a content
\* token: no Newline is the first token, follows a Newline, or follows an
\* Indent or a Dedent.
C35_NewlinePlacement ==
    \A i \in 1..Len(tokens) :
       tokens[i].type = "Newline" => (i > 1 /\ IsContent(tokens[i - 1]))

\* A source with an empty line and an indented line has been lexed to its
\* Eof: an Indent was handed out, and a Newline after a content token.
C35_Witness ==
    /\ NumEof(tokens) > 0
    /\ \E i \in 1..Len(source) - 1 : source[i] = "\n" /\ source[i + 1] = "\n"
    /\ \E i \in 1..Len(tokens) : tokens[i].type = "Indent"
    /\ \E i \in 2..Len(tokens) : tokens[i].type = "Newline" /\ IsContent(tokens[i - 1])

====
